---- MODULE Spec2Model ----
(***************************************************************************)
(* Model of the contact intake form (src/components/ContactForm.tsx): the  *)
(* four-step wizard, the country -> state -> city option cascade, and the  *)
(* submit handler that writes a contact and its optional investigator      *)
(* profile through the store client.  The parts of the intake that the     *)
(* form under src/ does not have (the step header of the tabs variant, the *)
(* derived address and the lookup resolver of the free-text variant) are   *)
(* modelled from the specification and kept in sections of their own.      *)
(***************************************************************************)
EXTENDS Integers, Sequences, FiniteSets, TLC

(* ------------------------------ bounds -------------------------------- *)

\* Reads of one kind that may be in flight for the same parent id at once.
MaxPending == 2

\* Invocations of onSubmit, over all sessions, in one behaviour.
MaxSubmissions == 2

\* Invocations of onSubmit in one behaviour of the wizard specification.
MaxWizardSubmissions == 1

(* ------------------------- reference fixtures -------------------------- *)

\* The empty value of a select ('' in FormValues; falsy in the effects).
Empty == 0

\* Browser sessions that have the form mounted.
Sessions == {1, 2}

\* Rows of the country table.
CountryIds == {1, 2}

\* Rows of the state_region table as <<id, country_id>>.
StateRows == {<<1, 1>>, <<2, 2>>}

\* Rows of the city table as <<id, state_id>>.
CityRows == {<<1, 1>>, <<2, 2>>}

\* What the user may type into the email input, as sequences of characters.
EmailInputs ==
    {<<>>, <<" ">>, <<"a", "b">>, <<" ", "A", "b">>, <<"_", "b">>}

\* error.message values the store client may report besides a uniqueness
\* violation, and the message of an exception thrown by a call.
OtherErrors == {<<"permission denied for table">>}

\* What the user may type into a name input or the address textarea.
TextInputs == {<<>>, <<"A">>}

StateIds == {r[1] : r \in StateRows}

CityIds == {r[1] : r \in CityRows}

\* select id from state_region where country_id = c
StatesOf(c) == {r[1] : r \in {x \in StateRows : x[2] = c}}

\* select id from city where state_id = st
CitiesOf(st) == {r[1] : r \in {x \in CityRows : x[2] = st}}

(* ------------------------------- state --------------------------------- *)

VARIABLES
    activeStep,   \* [Sessions -> 0..3]           useState(0)
    values,       \* [Sessions -> FormValues]     react-hook-form values
    countries,    \* [Sessions -> SUBSET ids]     country options
    states,       \* [Sessions -> SUBSET ids]     state options
    cities,       \* [Sessions -> SUBSET ids]     city options
    staticRead,   \* [Sessions -> BOOLEAN]        loadStatic still pending
    stateReads,   \* [Sessions -> [CountryIds -> Nat]] state reads in flight
    cityReads,    \* [Sessions -> [StateIds -> Nat]]   city reads in flight
    notified,     \* [Sessions -> messages]      showToast calls of the loaders
    submitting,   \* [Sessions -> BOOLEAN]        useState(false)
    message,      \* [Sessions -> message]        useState('')
    subs,         \* the onSubmit invocations that have not returned yet
    nsub,         \* number of onSubmit invocations so far
    contact,      \* the contact table, in insertion order (id = position)
    profile,      \* the contact_investigator_profile table, insertion order
    loader,       \* [Sessions -> the showLoader and hideLoader calls made]
    parts,        \* the address inputs of the free-text intake
    derived,      \* the address derived from parts, NotDerived before
    refs,         \* [Collections -> rows] reference tables, insertion order
    calls,        \* the resolve calls that have not returned yet
    resolved,     \* [Sessions -> what the session's last resolve returned]
    chain,        \* [Sessions -> the location references of a submission]
    formMounted,  \* [Sessions -> BOOLEAN]       the ContactForm is mounted
    listing,      \* [Sessions -> the AdminTable of the session]
    guard,        \* [Sessions -> the AuthGuard of the session]
    toaster       \* [Sessions -> the ToastProvider of the session]

vars == <<activeStep, values, countries, states, cities, staticRead,
          stateReads, cityReads, notified, submitting, message, subs, nsub,
          contact, profile, loader, parts, derived, refs, calls, resolved,
          chain, formMounted, listing, guard, toaster>>

\* The state of the free-text intake: address inputs and reference lookup.
freeTextVars == <<parts, derived, refs, calls, resolved, chain>>

\* The views next to the form's fields: whether the form is mounted, the
\* contact listing and the access guard.
viewVars == <<formMounted, listing, guard, toaster>>

cascadeVars ==
    <<countries, states, cities, staticRead, stateReads, cityReads, notified>>

storeVars == <<submitting, message, subs, nsub, contact, profile, loader>>

\* The steps array: contact, professional, investigator, admin.
steps == <<"contact", "professional", "investigator", "admin">>

\* The id of the step shown: steps[activeStep].id (sequences are 1-based).
currentTab(s) == steps[activeStep[s] + 1]

\* defaultValues of useForm: checkboxes false, selects and inputs empty.
DefaultValues ==
    [first_name |-> <<>>, last_name |-> <<>>, email |-> <<>>,
     hospital_clinic_address |-> <<>>, is_investigator |-> FALSE,
     country_id |-> Empty, state_id |-> Empty, city_id |-> Empty,
     organization_id |-> Empty, specialty_id |-> Empty,
     occupation_id |-> Empty, department_id |-> Empty]

\* Reference collections a label is resolved in; state_region rows are
\* scoped to a parent country and city rows to a parent state, organization
\* and country rows have no parent.
Collections == {"organization", "country", "state_region", "city"}

\* The address inputs all blank.
BlankParts ==
    [org_type |-> <<>>, org_type_other |-> <<>>, address_line1 |-> <<>>,
     address_line2 |-> <<>>, postal_code |-> <<>>]

\* No address derived yet.
NotDerived == <<"not derived">>

\* No resolve has returned yet.
NoResult == 0

\* No location reference of a submission resolved so far.
NoChain ==
    [stage |-> "idle",
     labels |-> [country |-> <<>>, state_region |-> <<>>, city |-> <<>>],
     country |-> NoResult, state_region |-> NoResult, city |-> NoResult,
     n |-> 0]

\* The free-text intake before any input: blank address inputs, empty
\* reference collections, no lookup made.
InitFreeText ==
    /\ parts = BlankParts
    /\ derived = NotDerived
    /\ refs = [c \in Collections |-> <<>>]
    /\ calls = {}
    /\ resolved = [s \in Sessions |-> NoResult]
    /\ chain = [s \in Sessions |-> NoChain]

\* The contact listing before its load has got anything.
NoListing ==
    [variant |-> 1, mounted |-> TRUE, pc |-> "contacts", data |-> <<>>,
     rows |-> <<>>, filtered |-> <<>>, countries |-> {}, loading |-> TRUE,
     failed |-> FALSE, search |-> <<>>, countryFilter |-> <<>>,
     csv |-> <<"none">>]

\* The toast provider before any toast: the clock that Date.now() reads, the
\* toasts shown, the timers set and not yet fired in the order they were
\* set, and the number of showToast calls so far.
NoToasts == [now |-> 0, toasts |-> <<>>, timers |-> <<>>, calls |-> 0]

\* The access guard before its check has got anything.
NoGuard ==
    [variant |-> 2, requireAdmin |-> FALSE, mounted |-> TRUE,
     pc |-> "session", session |-> "unknown", profile |-> "unknown",
     loading |-> TRUE, allowed |-> FALSE, redirect |-> "", signedOut |-> FALSE]

\* The views after construction, their effects started.
InitViews ==
    /\ formMounted = [s \in Sessions |-> TRUE]
    /\ toaster = [s \in Sessions |-> NoToasts]
    /\ listing = [s \in Sessions |-> NoListing]
    /\ guard = [s \in Sessions |-> NoGuard]

\* The form after construction.
\* No call made yet on the page loader of useLoader().
NoLoaderCalls == [shown |-> 0, hidden |-> 0]

InitForm ==
    /\ activeStep = [s \in Sessions |-> 0]
    /\ values = [s \in Sessions |-> DefaultValues]
    /\ countries = [s \in Sessions |-> {}]
    /\ states = [s \in Sessions |-> {}]
    /\ cities = [s \in Sessions |-> {}]
    /\ staticRead = [s \in Sessions |-> TRUE]
    /\ stateReads = [s \in Sessions |-> [c \in CountryIds |-> 0]]
    /\ cityReads = [s \in Sessions |-> [st \in StateIds |-> 0]]
    /\ notified = [s \in Sessions |-> {}]
    /\ submitting = [s \in Sessions |-> FALSE]
    /\ message = [s \in Sessions |-> <<>>]
    /\ subs = {}
    /\ nsub = 0
    /\ loader = [s \in Sessions |-> NoLoaderCalls]
    /\ contact = <<>>
    /\ profile = <<>>

Init == InitFreeText /\ InitViews /\ InitForm

(* ------------------------- option cascade ------------------------------ *)

\* A state setter called for a form that is no longer mounted changes nothing.
AppliedAlways(s) == TRUE

\* The loaders call their setters whether or not the form is still mounted
\* (the effects have no cleanup); the update is applied while it is mounted.
Applied(s) == formMounted[s]

\* loadStatic completes: setCountries(countryRes.data ?? []); a failed read
\* leaves data null (or throws before any setter runs): the options stay [].
StaticLoadedStep(s, ok) ==
    /\ staticRead[s]
    /\ staticRead' = [staticRead EXCEPT ![s] = FALSE]
    /\ countries' = [countries EXCEPT ![s] =
                        IF Applied(s) THEN IF ok THEN CountryIds ELSE {}
                        ELSE @]
    /\ UNCHANGED <<activeStep, values, states, cities, stateReads, cityReads,
                   notified>>
    /\ UNCHANGED storeVars
    /\ UNCHANGED freeTextVars
    /\ UNCHANGED viewVars

\* The synchronous part of the loadStates effect for the new country c:
\* an empty country clears the options at once, any other issues a read.
StaticLoaded(s) == \E ok \in BOOLEAN : StaticLoadedStep(s, ok)

StatesAfterChange(s, c) == IF c = Empty THEN {} ELSE states[s]

StateReadsAfterChange(s, c) ==
    IF c = Empty THEN stateReads[s]
    ELSE [stateReads[s] EXCEPT ![c] = @ + 1]

\* The synchronous part of the loadCities effect for the new state st.
CitiesAfterChange(s, st) == IF st = Empty THEN {} ELSE cities[s]

CityReadsAfterChange(s, st) ==
    IF st = Empty THEN cityReads[s]
    ELSE [cityReads[s] EXCEPT ![st] = @ + 1]

\* The user picks an option of the country select (professional step); the
\* loadStates effect then runs because selectedCountryId changed.
SetCountry(s, c) ==
    /\ currentTab(s) = "professional"
    /\ c \in countries[s] \cup {Empty}
    /\ c # values[s].country_id
    /\ c # Empty => stateReads[s][c] < MaxPending
    /\ values' = [values EXCEPT ![s].country_id = c]
    /\ states' = [states EXCEPT ![s] = StatesAfterChange(s, c)]
    /\ stateReads' = [stateReads EXCEPT ![s] = StateReadsAfterChange(s, c)]
    /\ UNCHANGED <<activeStep, countries, cities, staticRead, cityReads,
                   notified>>
    /\ UNCHANGED storeVars
    /\ UNCHANGED freeTextVars
    /\ UNCHANGED viewVars

\* What a completed state read for country c hands to setStates: the rows of
\* c, or [] when the read failed (data ?? [], and the catch branch).
StatesResult(c, ok) == IF ok THEN StatesOf(c) ELSE {}

\* A state read issued for country c completes: setStates(data ?? []).
StatesLoadedStep(s, c, ok) ==
    /\ stateReads[s][c] > 0
    /\ stateReads' = [stateReads EXCEPT ![s][c] = @ - 1]
    /\ states' = [states EXCEPT ![s] =
                     IF Applied(s) THEN StatesResult(c, ok) ELSE @]
    /\ UNCHANGED <<activeStep, values, countries, cities, staticRead, cityReads,
                   notified>>
    /\ UNCHANGED storeVars
    /\ UNCHANGED freeTextVars
    /\ UNCHANGED viewVars

StatesLoaded(s, c) == \E ok \in BOOLEAN : StatesLoadedStep(s, c, ok)

\* The user picks an option of the state select; loadCities then runs.
SetState(s, st) ==
    /\ currentTab(s) = "professional"
    /\ st \in states[s] \cup {Empty}
    /\ st # values[s].state_id
    /\ st # Empty => cityReads[s][st] < MaxPending
    /\ values' = [values EXCEPT ![s].state_id = st]
    /\ cities' = [cities EXCEPT ![s] = CitiesAfterChange(s, st)]
    /\ cityReads' = [cityReads EXCEPT ![s] = CityReadsAfterChange(s, st)]
    /\ UNCHANGED <<activeStep, countries, states, staticRead, stateReads,
                   notified>>
    /\ UNCHANGED storeVars
    /\ UNCHANGED freeTextVars
    /\ UNCHANGED viewVars

\* What a completed city read for state st hands to setCities.
CitiesResult(st, ok) == IF ok THEN CitiesOf(st) ELSE {}

\* A city read issued for state st completes: setCities(data ?? []).
CitiesLoadedStep(s, st, ok) ==
    /\ cityReads[s][st] > 0
    /\ cityReads' = [cityReads EXCEPT ![s][st] = @ - 1]
    /\ cities' = [cities EXCEPT ![s] =
                     IF Applied(s) THEN CitiesResult(st, ok) ELSE @]
    /\ UNCHANGED <<activeStep, values, countries, states, staticRead, stateReads,
                   notified>>
    /\ UNCHANGED storeVars
    /\ UNCHANGED freeTextVars
    /\ UNCHANGED viewVars

CitiesLoaded(s, st) == \E ok \in BOOLEAN : CitiesLoadedStep(s, st, ok)

\* The toasts of the three loaders.
MsgLoadStatic == "Failed to load dropdown data."

MsgLoadStates == "Failed to load states."

MsgLoadCities == "Failed to load cities."

\* showToast replaces the showToast function of the provider, on which the
\* three loader effects depend: each runs again for the current field values.
\* sr and cr are the reads in flight, st and ci the options when it happens.
RerunLoaders(s, sr, cr, st, ci) ==
    LET c == values[s].country_id
        x == values[s].state_id
    IN /\ staticRead' = [staticRead EXCEPT ![s] = TRUE]
       /\ states' = [states EXCEPT ![s] = IF c = Empty THEN {} ELSE st]
       /\ stateReads' = [stateReads EXCEPT ![s] =
                            IF c = Empty THEN sr ELSE [sr EXCEPT ![c] = @ + 1]]
       /\ cities' = [cities EXCEPT ![s] = IF x = Empty THEN {} ELSE ci]
       /\ cityReads' = [cityReads EXCEPT ![s] =
                           IF x = Empty THEN cr ELSE [cr EXCEPT ![x] = @ + 1]]
       /\ \A k \in CountryIds : stateReads'[s][k] <= MaxPending
       /\ \A k \in StateIds : cityReads'[s][k] <= MaxPending

\* The form is no longer mounted: it is not rendered again and no effect
\* runs; sr and cr are the reads still in flight.
NoRerun(s, sr, cr) ==
    /\ stateReads' = [stateReads EXCEPT ![s] = sr]
    /\ cityReads' = [cityReads EXCEPT ![s] = cr]
    /\ UNCHANGED <<states, cities>>

\* One of the reads of loadStatic throws: no setter runs, the catch branch
\* shows the toast.
StaticThrown(s) ==
    /\ staticRead[s]
    /\ notified' = [notified EXCEPT ![s] = @ \cup {MsgLoadStatic}]
    /\ IF formMounted[s]
       THEN RerunLoaders(s, stateReads[s], cityReads[s], states[s], cities[s])
       ELSE /\ staticRead' = [staticRead EXCEPT ![s] = FALSE]
            /\ NoRerun(s, stateReads[s], cityReads[s])
    /\ UNCHANGED <<activeStep, values, countries>>
    /\ UNCHANGED storeVars
    /\ UNCHANGED freeTextVars
    /\ UNCHANGED viewVars

\* A state read issued for country c throws: setStates([]) and the toast.
StatesThrown(s, c) ==
    /\ stateReads[s][c] > 0
    /\ notified' = [notified EXCEPT ![s] = @ \cup {MsgLoadStates}]
    /\ IF formMounted[s]
       THEN RerunLoaders(s, [stateReads[s] EXCEPT ![c] = @ - 1], cityReads[s],
                         {}, cities[s])
       ELSE /\ UNCHANGED staticRead
            /\ NoRerun(s, [stateReads[s] EXCEPT ![c] = @ - 1], cityReads[s])
    /\ UNCHANGED <<activeStep, values, countries>>
    /\ UNCHANGED storeVars
    /\ UNCHANGED freeTextVars
    /\ UNCHANGED viewVars

\* A city read issued for state st throws: setCities([]) and the toast.
CitiesThrown(s, st) ==
    /\ cityReads[s][st] > 0
    /\ notified' = [notified EXCEPT ![s] = @ \cup {MsgLoadCities}]
    /\ IF formMounted[s]
       THEN RerunLoaders(s, stateReads[s], [cityReads[s] EXCEPT ![st] = @ - 1],
                         states[s], {})
       ELSE /\ UNCHANGED staticRead
            /\ NoRerun(s, stateReads[s], [cityReads[s] EXCEPT ![st] = @ - 1])
    /\ UNCHANGED <<activeStep, values, countries>>
    /\ UNCHANGED storeVars
    /\ UNCHANGED freeTextVars
    /\ UNCHANGED viewVars

\* The user picks an option of the city select (no effect depends on it).
SetCity(s, ci) ==
    /\ currentTab(s) = "professional"
    /\ ci \in cities[s] \cup {Empty}
    /\ ci # values[s].city_id
    /\ values' = [values EXCEPT ![s].city_id = ci]
    /\ UNCHANGED <<activeStep>>
    /\ UNCHANGED cascadeVars
    /\ UNCHANGED storeVars
    /\ UNCHANGED freeTextVars
    /\ UNCHANGED viewVars

\* The form is torn down; its effects have no cleanup, so nothing else
\* happens and the reads in flight stay in flight.
UnmountForm(s) ==
    /\ formMounted[s]
    /\ formMounted' = [formMounted EXCEPT ![s] = FALSE]
    /\ UNCHANGED <<activeStep, values, listing, guard, toaster>>
    /\ UNCHANGED cascadeVars
    /\ UNCHANGED storeVars
    /\ UNCHANGED freeTextVars

(* --------------------------- contact listing --------------------------- *)

\* The contact ids the contacts read returns, newest first.
NewestFirst == [i \in 1..Len(contact) |-> contact[Len(contact) + 1 - i].id]

\* The outcomes of a read of the listing: rows, an error answer, a throw.
ReadOutcomes == {"data", "error", "thrown"}

\* finally { if (mounted) setLoading(false) }: the load is over.
ListingFinished(l) ==
    [l EXCEPT !.pc = "done", !.loading = IF l.mounted THEN FALSE ELSE @]

\* The listing state after the read it waits for has answered with outcome.
ListingAfter(l, outcome) ==
    IF outcome = "thrown" THEN ListingFinished(l)
    ELSE CASE l.pc = "contacts" ->
                [l EXCEPT !.pc = "profiles",
                          !.data = IF outcome = "data" THEN NewestFirst
                                   ELSE <<>>,
                          !.failed = outcome # "data"]
           [] l.pc = "profiles" ->
                IF ~l.failed /\ l.mounted
                THEN [l EXCEPT !.pc = "countries", !.rows = l.data,
                               !.filtered = l.data]
                ELSE [l EXCEPT !.pc = "countries"]
           [] OTHER ->
                ListingFinished(
                    IF l.mounted
                    THEN [l EXCEPT !.countries =
                             IF outcome = "data" THEN CountryIds ELSE {}]
                    ELSE l)

\* The read the load of the listing waits for answers.
ListingRead(s, outcome) ==
    /\ listing[s].pc # "done"
    /\ listing' = [listing EXCEPT ![s] = ListingAfter(@, outcome)]
    /\ UNCHANGED <<activeStep, values, formMounted, guard, toaster>>
    /\ UNCHANGED cascadeVars
    /\ UNCHANGED storeVars
    /\ UNCHANGED freeTextVars

\* The listing is torn down: the cleanup of the load effect runs.
UnmountListing(s) ==
    /\ listing[s].mounted
    /\ listing' = [listing EXCEPT ![s].mounted = FALSE]
    /\ UNCHANGED <<activeStep, values, formMounted, guard, toaster>>
    /\ UNCHANGED cascadeVars
    /\ UNCHANGED storeVars
    /\ UNCHANGED freeTextVars

(* ----------------------------- access guard ---------------------------- *)

\* The two AuthGuard components: 1 has neither a catch nor a mounted flag,
\* 2 has both and signs the user out when it refuses.
GuardVariants == {1, 2}

\* What supabase.auth.getSession() gives: a session, none, or it throws.
SessionAnswers == {"some", "none", "thrown"}

\* What the read of profiles.is_admin gives: an error, no row, a row that is
\* not admin, a row that is admin, or it throws.
ProfileAnswers == {"error", "none", "user", "admin", "thrown"}

\* The guard refuses: router.replace(to); guard 2 first signs out when
\* signOut is set, does nothing more once it is torn down, and else clears
\* allowed and loading.
Refused(g, to, signOut) ==
    IF g.variant = 1
    THEN [g EXCEPT !.pc = "done", !.redirect = to]
    ELSE IF ~g.mounted
         THEN [g EXCEPT !.pc = "done", !.signedOut = @ \/ signOut]
         ELSE [g EXCEPT !.pc = "done", !.signedOut = @ \/ signOut,
                        !.allowed = FALSE, !.loading = FALSE,
                        !.redirect = to]

\* The guard admits: setAllowed(true); setLoading(false), which change
\* nothing once the guard is torn down.
Admitted(g) ==
    IF g.mounted
    THEN [g EXCEPT !.pc = "done", !.allowed = TRUE, !.loading = FALSE]
    ELSE [g EXCEPT !.pc = "done"]

\* The call of guard 1 throws: nothing catches it, the check just ends.
\* Guard 2 catches it, signs out and sends the user to the login page.
CheckThrown(g) ==
    IF g.variant = 1 THEN [g EXCEPT !.pc = "done"]
    ELSE Refused(g, "/login", TRUE)

\* The guard after getSession has answered.
GuardAfterSession(g, answer) ==
    CASE answer = "thrown" -> CheckThrown(g)
      [] answer = "none" -> Refused([g EXCEPT !.session = "none"], "/login", FALSE)
      [] OTHER ->
           IF g.requireAdmin
           THEN [g EXCEPT !.session = "some", !.pc = "profile"]
           ELSE Admitted([g EXCEPT !.session = "some"])

\* The guard after the profile read has answered.
GuardAfterProfile(g, answer) ==
    CASE answer = "thrown" -> CheckThrown(g)
      [] answer = "admin" -> Admitted([g EXCEPT !.profile = "admin"])
      [] OTHER -> Refused([g EXCEPT !.profile = answer], "/contact", TRUE)

\* getSession answers the check of the guard.
GuardSession(s, answer) ==
    /\ guard[s].pc = "session"
    /\ guard' = [guard EXCEPT ![s] = GuardAfterSession(@, answer)]
    /\ UNCHANGED <<activeStep, values, formMounted, listing, toaster>>
    /\ UNCHANGED cascadeVars
    /\ UNCHANGED storeVars
    /\ UNCHANGED freeTextVars

\* The profile read answers the check of the guard.
GuardProfile(s, answer) ==
    /\ guard[s].pc = "profile"
    /\ guard' = [guard EXCEPT ![s] = GuardAfterProfile(@, answer)]
    /\ UNCHANGED <<activeStep, values, formMounted, listing, toaster>>
    /\ UNCHANGED cascadeVars
    /\ UNCHANGED storeVars
    /\ UNCHANGED freeTextVars

\* The guard is torn down; guard 2 clears its mounted flag.
UnmountGuard(s) ==
    /\ guard[s].mounted
    /\ guard' = [guard EXCEPT ![s].mounted = FALSE]
    /\ UNCHANGED <<activeStep, values, formMounted, listing, toaster>>
    /\ UNCHANGED cascadeVars
    /\ UNCHANGED storeVars
    /\ UNCHANGED freeTextVars

\* What the guard renders: its children or nothing.
ChildrenRendered(g) ==
    /\ g.mounted
    /\ IF g.variant = 1 THEN g.allowed ELSE ~g.loading /\ g.allowed

(* ------------------------------- toasts -------------------------------- *)

\* The messages passed to showToast.
ToastMessages == {"Contact saved successfully.", "Failed to load states."}

\* const id = Date.now()
ToastId(tp) == tp.now

\* The frame of a step of the toast provider.
ToastFrame ==
    /\ UNCHANGED <<activeStep, values, formMounted, listing, guard>>
    /\ UNCHANGED cascadeVars
    /\ UNCHANGED storeVars
    /\ UNCHANGED freeTextVars

\* showToast(message): the toast is appended and a timer set that will
\* remove the toasts with its id.  n numbers the call: it is a record for
\* the properties, not data of the program.
ShowToast(s, msg) ==
    LET tp == toaster[s]
        toast == [id |-> ToastId(tp), message |-> msg, n |-> tp.calls + 1]
    IN /\ toaster' = [toaster EXCEPT ![s] =
                         [tp EXCEPT !.toasts = Append(@, toast),
                                    !.timers = Append(@, [id |-> toast.id,
                                                          n |-> toast.n]),
                                    !.calls = @ + 1]]
       /\ ToastFrame

\* A millisecond passes on the clock that Date.now() reads.
Tick(s) ==
    /\ toaster' = [toaster EXCEPT ![s].now = @ + 1]
    /\ ToastFrame

\* The oldest timer fires, some time after it was set:
\* setToasts(prev => prev.filter(t => t.id !== id)).
TimerFires(s) ==
    LET tp == toaster[s] IN
    /\ tp.timers # <<>>
    /\ tp.now > Head(tp.timers).id
    /\ LET keep(t) == t.id # Head(tp.timers).id IN
       toaster' = [toaster EXCEPT ![s] =
                      [tp EXCEPT !.toasts = SelectSeq(@, keep),
                                 !.timers = Tail(@)]]
    /\ ToastFrame

(* --------------------------- step navigation --------------------------- *)

Min(a, b) == IF a < b THEN a ELSE b

Max(a, b) == IF a > b THEN a ELSE b

\* NextStep bounded at steps.length instead of steps.length - 1.
NextStepOffByOne(prev) == Min(prev + 1, Len(steps))

\* setActiveStep(prev => Math.min(prev + 1, steps.length - 1))
NextStep(prev) == Min(prev + 1, Len(steps) - 1)

\* setActiveStep(prev => Math.max(prev - 1, 0))
PrevStep(prev) == Max(prev - 1, 0)

\* The inputs registered with { required: true }.
RequiredFields == {"first_name", "last_name"}

\* The step that renders the input of a required field.
StepOfField(field) == "contact"

\* An input is mounted while its step is the one rendered.
Mounted(s, field) == currentTab(s) = StepOfField(field)

\* The validation handleSubmit runs before it calls onSubmit: the rules of
\* the registered fields whose input is mounted; the rules of a field whose
\* input has been unmounted by a step change are skipped.
Valid(s) ==
    \A field \in RequiredFields : Mounted(s, field) => values[s][field] # <<>>

\* Next refused while a rule of the rendered step is broken.
goNextValidated(s) ==
    /\ Valid(s)
    /\ activeStep' = [activeStep EXCEPT ![s] = NextStep(@)]
    /\ UNCHANGED <<values>>
    /\ UNCHANGED cascadeVars
    /\ UNCHANGED storeVars
    /\ UNCHANGED freeTextVars
    /\ UNCHANGED viewVars

goNext(s) ==
    /\ activeStep' = [activeStep EXCEPT ![s] = NextStep(@)]
    /\ UNCHANGED <<values>>
    /\ UNCHANGED cascadeVars
    /\ UNCHANGED storeVars
    /\ UNCHANGED freeTextVars
    /\ UNCHANGED viewVars

goPrev(s) ==
    /\ activeStep' = [activeStep EXCEPT ![s] = PrevStep(@)]
    /\ UNCHANGED <<values>>
    /\ UNCHANGED cascadeVars
    /\ UNCHANGED storeVars
    /\ UNCHANGED freeTextVars
    /\ UNCHANGED viewVars

\* A step header that lets the user reach the neighbouring steps only.
goToNeighbour(s, index) ==
    /\ index \in 0..(Len(steps) - 1)
    /\ index - activeStep[s] \in {-1, 0, 1}
    /\ activeStep' = [activeStep EXCEPT ![s] = index]
    /\ UNCHANGED <<values>>
    /\ UNCHANGED cascadeVars
    /\ UNCHANGED storeVars
    /\ UNCHANGED freeTextVars
    /\ UNCHANGED viewVars

\* The step header of the tabs variant: a click on the header of step index
\* makes that step the active one.
goTo(s, index) ==
    /\ index \in 0..(Len(steps) - 1)
    /\ activeStep' = [activeStep EXCEPT ![s] = index]
    /\ UNCHANGED <<values>>
    /\ UNCHANGED cascadeVars
    /\ UNCHANGED storeVars
    /\ UNCHANGED freeTextVars
    /\ UNCHANGED viewVars

(* ------------------------------ strings -------------------------------- *)

\* null, as stored in a nullable text column.
Null == <<"null">>

IsSpace(ch) == ch = " "

RECURSIVE TrimStart(_)
TrimStart(e) ==
    IF e # <<>> /\ IsSpace(Head(e)) THEN TrimStart(Tail(e)) ELSE e

RECURSIVE TrimEnd(_)
TrimEnd(e) ==
    IF e # <<>> /\ IsSpace(e[Len(e)]) THEN TrimEnd(SubSeq(e, 1, Len(e) - 1))
    ELSE e

\* String.prototype.trim
Trim(e) == TrimEnd(TrimStart(e))

\* Case folding of one character, as ILIKE and lower() compare.
LowerChar(ch) == IF ch = "A" THEN "a" ELSE IF ch = "B" THEN "b" ELSE ch

Lower(e) == [i \in 1..Len(e) |-> LowerChar(e[i])]

\* The trimmed email without the fallback to null.
trimmedEmailKeepsEmpty(vals) == Trim(vals.email)

\* const trimmedEmail = rest.email?.trim() || null
trimmedEmail(vals) == IF Trim(vals.email) = <<>> THEN Null ELSE Trim(vals.email)

\* text ILIKE pattern: '_' matches any one character, '%' any run of
\* characters, every other character itself without regard to case.
RECURSIVE ILike(_, _)
ILike(text, pattern) ==
    IF pattern = <<>> THEN text = <<>>
    ELSE IF Head(pattern) = "%"
         THEN \/ ILike(text, Tail(pattern))
              \/ text # <<>> /\ ILike(Tail(text), pattern)
    ELSE IF text = <<>> THEN FALSE
    ELSE /\ \/ Head(pattern) = "_"
            \/ LowerChar(Head(pattern)) = LowerChar(Head(text))
         /\ ILike(Tail(text), Tail(pattern))

\* rawMsg.includes(part), on a message held as a sequence of its parts.
Includes(msg, part) == \E i \in 1..Len(msg) : msg[i] = part

(* ------------------------------- store --------------------------------- *)

\* The ids the email pre-check query selects:
\* from('contact').select('id').ilike('email', trimmedEmail)
ExistingRows(email) ==
    {i \in 1..Len(contact) :
        contact[i].email # Null /\ ILike(contact[i].email, email)}

\* A uniqueness constraint that compares the emails with regard to case.
EmailConflictCaseSensitive(email) ==
    /\ email # Null
    /\ \E i \in 1..Len(contact) : contact[i].email = email

\* contact.email has a case-insensitive uniqueness constraint.
EmailConflict(email) ==
    /\ email # Null
    /\ \E i \in 1..Len(contact) :
          /\ contact[i].email # Null
          /\ Lower(contact[i].email) = Lower(email)

\* The message of the store's uniqueness violation on contact.email.
UniqueViolation ==
    <<"duplicate key value", " violates unique constraint ", "contact_email_unique">>

(* ------------------------------ messages ------------------------------- *)

MsgDuplicate == <<"A contact with this email already exists.">>

MsgCheckFailed == <<"Could not verify email uniqueness. Please try again.">>

MsgNoSession == <<"You must be logged in to save a contact.">>

MsgSaved == <<"Contact saved successfully.">>

\* 'Contact saved but investigator profile failed: ' + invError.message
MsgProfileFailed(errMsg) ==
    <<"Contact saved but investigator profile failed: ">> \o errMsg

\* The message shown for a failed contact insert.
MsgContactError(rawMsg) ==
    IF Includes(rawMsg, "contact_email_unique") \/ Includes(rawMsg, "duplicate key value")
    THEN MsgDuplicate
    ELSE IF rawMsg = <<>> THEN <<"Error creating contact.">>
    ELSE rawMsg

(* ----------------------------- field edits ----------------------------- *)

\* The user edits the email input (rendered on the contact step only).
SetEmail(s, e) ==
    /\ currentTab(s) = "contact"
    /\ e # values[s].email
    /\ values' = [values EXCEPT ![s].email = e]
    /\ UNCHANGED <<activeStep>>
    /\ UNCHANGED cascadeVars
    /\ UNCHANGED storeVars
    /\ UNCHANGED freeTextVars
    /\ UNCHANGED viewVars

\* The user edits the first name or the last name input (contact step only).
SetName(s, field, v) ==
    /\ currentTab(s) = "contact"
    /\ field \in {"first_name", "last_name"}
    /\ v # values[s][field]
    /\ values' = [values EXCEPT ![s][field] = v]
    /\ UNCHANGED <<activeStep>>
    /\ UNCHANGED cascadeVars
    /\ UNCHANGED storeVars
    /\ UNCHANGED freeTextVars
    /\ UNCHANGED viewVars

\* The user toggles the is_investigator checkbox (investigator step only).
SetInvestigator(s) ==
    /\ currentTab(s) = "investigator"
    /\ values' = [values EXCEPT ![s].is_investigator = ~@]
    /\ UNCHANGED <<activeStep>>
    /\ UNCHANGED cascadeVars
    /\ UNCHANGED storeVars
    /\ UNCHANGED freeTextVars
    /\ UNCHANGED viewVars

(* ------------------------------- submit -------------------------------- *)

\* {activeStep === steps.length - 1 && <button type="submit" ...>}
SaveButtonShown(s) == activeStep[s] = Len(steps) - 1

\* disabled={submitting}
SaveButtonDisabled(s) == submitting[s]

\* The rendered inputs of the form that block implicit submission (text,
\* email and date inputs; not checkboxes, selects or textareas), per step.
BlockingFields(s) ==
    CASE currentTab(s) = "contact" -> 6
      [] currentTab(s) = "professional" -> 0
      [] currentTab(s) = "investigator" ->
            IF values[s].is_investigator THEN 1 ELSE 0
      [] currentTab(s) = "admin" -> 3

\* When the form element can receive a submit event: through its submit
\* button unless that is disabled, and, on a step that renders no submit
\* button, through Enter in the only input that blocks implicit submission.
SubmitEnabled(s) ==
    IF SaveButtonShown(s) THEN ~SaveButtonDisabled(s)
    ELSE BlockingFields(s) = 1

\* The uniqueness query skipped whatever the email field holds.
FirstWaitSession(vals) == "session"

\* Where onSubmit first waits: the uniqueness query when an email is given,
\* the session lookup otherwise.
FirstWait(vals) == IF trimmedEmail(vals) # Null THEN "precheck" ELSE "session"

\* <form onSubmit={handleSubmit(onSubmit)}>: onSubmit starts with a snapshot
\* of the values and runs up to its first await.  tok numbers the
\* invocation and step is the step it was invoked on: both are records for
\* the properties, not data of the program.
Submit(s) ==
    /\ SubmitEnabled(s)
    /\ Valid(s)
    /\ nsub < MaxSubmissions
    /\ nsub' = nsub + 1
    /\ submitting' = [submitting EXCEPT ![s] = TRUE]
    /\ message' = [message EXCEPT ![s] = <<>>]
    /\ subs' = subs \cup {[tok |-> nsub + 1, session |-> s, vals |-> values[s],
                           step |-> activeStep[s],
                           pc |-> FirstWait(values[s]), contactId |-> 0]}
    /\ loader' = [loader EXCEPT ![s].shown = @ + 1]
    /\ UNCHANGED <<activeStep, values, contact, profile>>
    /\ UNCHANGED cascadeVars
    /\ UNCHANGED freeTextVars
    /\ UNCHANGED viewVars

\* The message shown, and the form reset as after a saved contact.
FailAndReset(r, msg) ==
    /\ subs' = subs \ {r}
    /\ message' = [message EXCEPT ![r.session] = msg]
    /\ submitting' = [submitting EXCEPT ![r.session] = FALSE]
    /\ values' = [values EXCEPT ![r.session] = DefaultValues]
    /\ activeStep' = [activeStep EXCEPT ![r.session] = 0]
    /\ loader' = [loader EXCEPT ![r.session].hidden = @ + 2]
    /\ UNCHANGED <<nsub>>
    /\ UNCHANGED cascadeVars
    /\ UNCHANGED freeTextVars
    /\ UNCHANGED viewVars

\* An early return inside the try block: the message is shown, submitting
\* is cleared and the step and the field values stay; hideLoader is called
\* before the return and again in the finally block.
Fail(r, msg) ==
    /\ subs' = subs \ {r}
    /\ message' = [message EXCEPT ![r.session] = msg]
    /\ submitting' = [submitting EXCEPT ![r.session] = FALSE]
    /\ loader' = [loader EXCEPT ![r.session].hidden = @ + 2]
    /\ UNCHANGED <<activeStep, values, nsub>>
    /\ UNCHANGED cascadeVars
    /\ UNCHANGED freeTextVars
    /\ UNCHANGED viewVars

\* The catch branch: the message of the exception is shown; submitting is
\* cleared and hideLoader called in the finally block only.
Caught(r, msg) ==
    /\ subs' = subs \ {r}
    /\ message' = [message EXCEPT ![r.session] = msg]
    /\ submitting' = [submitting EXCEPT ![r.session] = FALSE]
    /\ loader' = [loader EXCEPT ![r.session].hidden = @ + 1]
    /\ UNCHANGED <<activeStep, values, nsub>>
    /\ UNCHANGED cascadeVars
    /\ UNCHANGED freeTextVars
    /\ UNCHANGED viewVars

\* onSubmit goes on to its next await.
Goto(r, pc, cid) ==
    /\ subs' = (subs \ {r}) \cup {[r EXCEPT !.pc = pc, !.contactId = cid]}
    /\ UNCHANGED <<activeStep, values, submitting, message, nsub, loader>>
    /\ UNCHANGED cascadeVars
    /\ UNCHANGED freeTextVars
    /\ UNCHANGED viewVars

\* The message of the catch branch: err?.message || 'Something went wrong.'
MsgThrown(errMsg) == IF errMsg = <<>> THEN <<"Something went wrong.">> ELSE errMsg

\* The step that follows reset(): setActiveStep(0).
StepAfterSave == 0

\* The end of the try block and the finally: reset(), setActiveStep(0),
\* setSubmitting(false); the effects on country_id and state_id run again
\* when reset() changed them.
Succeed(r) ==
    LET s == r.session IN
    /\ subs' = subs \ {r}
    /\ message' = [message EXCEPT ![s] = MsgSaved]
    /\ submitting' = [submitting EXCEPT ![s] = FALSE]
    /\ loader' = [loader EXCEPT ![s].hidden = @ + 1]
    /\ values' = [values EXCEPT ![s] = DefaultValues]
    /\ activeStep' = [activeStep EXCEPT ![s] = StepAfterSave]
    /\ states' = [states EXCEPT ![s] =
                     IF values[s].country_id # Empty THEN {} ELSE @]
    /\ cities' = [cities EXCEPT ![s] =
                     IF values[s].state_id # Empty THEN {} ELSE @]
    /\ UNCHANGED <<countries, staticRead, stateReads, cityReads, notified, nsub>>
    /\ UNCHANGED freeTextVars
    /\ UNCHANGED viewVars

\* The profile insert made whatever is_investigator says.
AfterContactInsertAlways(vals) == "profile"

\* if (is_investigator) { insert the profile } after a stored contact.
AfterContactInsert(vals) == IF vals.is_investigator THEN "profile" ELSE "done"

\* The contact insert made before the session lookup.
NextWaitInsertFirst(pc, vals) ==
    CASE pc = "precheck" -> "insert"
      [] pc = "insert" -> "session"
      [] pc = "session" -> AfterContactInsert(vals)
      [] pc = "profile" -> "done"

\* The await that follows the one at pc when that one went well, in the
\* order of the try block: 1) uniqueness query, 2) session lookup,
\* 3) contact insert, 4) profile insert; "done" is the end of the block.
NextWait(pc, vals) ==
    CASE pc = "precheck" -> "session"
      [] pc = "session" -> "insert"
      [] pc = "insert" -> AfterContactInsert(vals)
      [] pc = "profile" -> "done"

\* onSubmit passes the await at r.pc.
Continue(r, cid) ==
    IF NextWait(r.pc, r.vals) = "done" THEN Succeed(r)
    ELSE Goto(r, NextWait(r.pc, r.vals), cid)

\* 1) the uniqueness query returns: .ilike('email', trimmedEmail).maybeSingle()
\* gives an error for a failed query and for more than one matching row.
CheckEmailStep(r, outcome, err) ==
    /\ r.pc = "precheck"
    /\ LET rows == ExistingRows(trimmedEmail(r.vals)) IN
       IF outcome = "throw" THEN Caught(r, MsgThrown(err))
       ELSE IF outcome = "error" \/ Cardinality(rows) > 1
            THEN Fail(r, MsgCheckFailed)
       ELSE IF rows # {} THEN Fail(r, MsgDuplicate)
       ELSE Continue(r, r.contactId)
    /\ UNCHANGED <<contact, profile>>

CheckEmail(r) ==
    \E outcome \in {"ok", "error", "throw"}, err \in OtherErrors :
        CheckEmailStep(r, outcome, err)

\* The message for a failed session lookup.
MsgSessionError(errMsg) ==
    IF errMsg = <<>> THEN <<"Could not get user session.">> ELSE errMsg

\* 2) supabase.auth.getSession() returns.
GetSession(r) ==
    /\ r.pc = "session"
    /\ \E outcome \in {"session", "none", "error", "throw"}, err \in OtherErrors :
          CASE outcome = "throw" -> Caught(r, MsgThrown(err))
            [] outcome = "error" -> Fail(r, MsgSessionError(err))
            [] outcome = "none" -> Fail(r, MsgNoSession)
            [] outcome = "session" -> Continue(r, r.contactId)
    /\ UNCHANGED <<contact, profile>>

\* null in a nullable foreign key column.
NullId == -1

\* country_id: rest.country_id || null
IdOrNull(v) == IF v = Empty THEN NullId ELSE v

\* hospital_clinic_address: rest.hospital_clinic_address || null
TextOrNull(v) == IF v = <<>> THEN Null ELSE v

\* The row onSubmit inserts into contact; id is assigned by the store.
\* flagged and sub are not columns: they record the intake's is_investigator
\* and the invocation that wrote the row.
ContactRow(r) ==
    [id |-> Len(contact) + 1,
     first_name |-> r.vals.first_name,
     last_name |-> r.vals.last_name,
     email |-> trimmedEmail(r.vals),
     hospital_clinic_address |-> TextOrNull(r.vals.hospital_clinic_address),
     country_id |-> IdOrNull(r.vals.country_id),
     state_id |-> IdOrNull(r.vals.state_id),
     city_id |-> IdOrNull(r.vals.city_id),
     organization_id |-> IdOrNull(r.vals.organization_id),
     specialty_id |-> IdOrNull(r.vals.specialty_id),
     occupation_id |-> IdOrNull(r.vals.occupation_id),
     department_id |-> IdOrNull(r.vals.department_id),
     flagged |-> r.vals.is_investigator,
     sub |-> r.tok]

\* insert(contact, row) at the store: the error it answers with, <<>> for
\* none; a uniqueness violation when the email is taken.
ContactInsertError(row) ==
    IF EmailConflict(row.email) THEN UniqueViolation ELSE <<>>

\* The violation the store reports when the generated id is already taken.
PkeyViolation ==
    <<"duplicate key value", " violates unique constraint ", "contact_pkey">>

\* error.message values a failed contact insert may carry.
InsertErrors == OtherErrors \cup {<<>>, PkeyViolation}

\* 3) the contact insert returns: outcome "ok" when the store carried the
\* insert out, "error" when it answered with err for another reason than
\* the email, "throw" when the call threw err.
InsertContactStep(r, outcome, err) ==
    /\ r.pc = "insert"
    /\ LET row == ContactRow(r) IN
       IF outcome = "throw" THEN Caught(r, MsgThrown(err)) /\ UNCHANGED contact
       ELSE IF outcome = "error"
            THEN Fail(r, MsgContactError(err)) /\ UNCHANGED contact
       ELSE IF ContactInsertError(row) # <<>>
            THEN Fail(r, MsgContactError(ContactInsertError(row)))
                 /\ UNCHANGED contact
       ELSE /\ contact' = Append(contact, row)
            /\ Continue(r, row.id)
    /\ UNCHANGED profile

InsertContact(r) ==
    \E outcome \in {"ok", "error", "throw"}, err \in InsertErrors :
        InsertContactStep(r, outcome, err)

\* The id of the newest contact row instead of the one this insert returned.
ProfileContactIdNewest(r) == Len(contact)

\* contact_id: contactData.id
ProfileContactId(r) == r.contactId

\* The row onSubmit inserts into contact_investigator_profile; sub records
\* the invocation that wrote it.
ProfileRow(r) == [contact_id |-> ProfileContactId(r), sub |-> r.tok]

\* 4) the investigator profile insert returns.
InsertProfileStep(r, outcome, err) ==
    /\ r.pc = "profile"
    /\ CASE outcome = "throw" -> Caught(r, MsgThrown(err)) /\ UNCHANGED profile
         [] outcome = "error" ->
               Fail(r, MsgProfileFailed(err)) /\ UNCHANGED profile
         [] outcome = "ok" ->
               /\ profile' = Append(profile, ProfileRow(r))
               /\ Continue(r, r.contactId)
    /\ UNCHANGED contact

InsertProfile(r) ==
    \E outcome \in {"ok", "error", "throw"}, err \in OtherErrors :
        InsertProfileStep(r, outcome, err)

(* --------------------------- derived address --------------------------- *)

\* What the address inputs of the free-text intake may hold.
AddressInputs ==
    [org_type : {<<>>, <<"Hospital">>, <<"Other">>},
     org_type_other : {<<>>, <<"Lab">>},
     address_line1 : {<<>>, <<" ">>, <<"1 Main St">>},
     address_line2 : {<<>>, <<"Suite 2">>},
     postal_code : {<<>>, <<"12345">>}]

\* The organization-type label: the free-text value when the type is Other.
OrgTypeLabel(p) ==
    IF p.org_type = <<"Other">> THEN p.org_type_other ELSE p.org_type

\* The label put before the postal code.
PostalLabel == "Postal Code: "

\* A part as the lines it contributes: none when blank, else itself.
Line(text) == IF Trim(text) = <<>> THEN <<>> ELSE <<Trim(text)>>

\* The postal code as the lines it contributes.
PostalLine(p) ==
    IF Trim(p.postal_code) = <<>> THEN <<>>
    ELSE <<(<<PostalLabel>> \o Trim(p.postal_code))>>

\* The lines joined into one text, a line break between two lines.
RECURSIVE JoinLines(_)
JoinLines(lines) ==
    IF lines = <<>> THEN <<>>
    ELSE IF Len(lines) = 1 THEN Head(lines)
    ELSE Head(lines) \o <<"\n">> \o JoinLines(Tail(lines))

\* A derivation that keeps a line for a blank part.
DerivedAddressKeepsBlank(p) ==
    JoinLines(<<Trim(OrgTypeLabel(p)), Trim(p.address_line1),
                Trim(p.address_line2),
                <<PostalLabel>> \o Trim(p.postal_code)>>)

\* Step 5 of the orchestrator: the composite address, null when every part
\* is blank.
DerivedAddress(p) ==
    LET lines == Line(OrgTypeLabel(p)) \o Line(p.address_line1)
                    \o Line(p.address_line2) \o PostalLine(p)
    IN IF lines = <<>> THEN Null ELSE JoinLines(lines)

\* The orchestrator derives the address of the intake.
DeriveAddress ==
    /\ derived = NotDerived
    /\ derived' = DerivedAddress(parts)
    /\ UNCHANGED <<activeStep, values, parts, refs, calls, resolved, chain>>
    /\ UNCHANGED cascadeVars
    /\ UNCHANGED storeVars
    /\ UNCHANGED viewVars

(* --------------------------- lookup resolver --------------------------- *)

\* Labels a free-text reference field may hold.
LabelInputs == {<<>>, <<" ">>, <<"A", "b">>, <<" ", "a", "b">>, <<"b">>}

\* A collection whose rows are scoped to a parent row.
ParentScoped(c) == c \in {"state_region", "city"}

\* The parent ids a resolve call for collection c may name.
ParentsOf(c) ==
    IF c = "state_region" THEN CountryIds
    ELSE IF c = "city" THEN StateIds
    ELSE {NullId}

\* resolve answers with PersistenceError.
PersistenceError == -2

\* A match that compares the names with regard to case.
MatchesExactCase(c, label, parent) ==
    {i \in 1..Len(refs[c]) :
        /\ refs[c][i].name = Trim(label)
        /\ ParentScoped(c) => refs[c][i].parent_id = parent}

\* A query that finds no row.
MatchesNothing(c, label, parent) == {}

\* The rows of collection c whose name is the trimmed label without regard
\* to case, within the parent when the collection is parent-scoped.
Matches(c, label, parent) ==
    {i \in 1..Len(refs[c]) :
        /\ Lower(refs[c][i].name) = Lower(Trim(label))
        /\ ParentScoped(c) => refs[c][i].parent_id = parent}

\* The smallest element of a non-empty set of numbers.
Least(S) == CHOOSE x \in S : \A y \in S : x <= y

\* resolve returns v to its caller.
Return(k, v) ==
    /\ calls' = calls \ {k}
    /\ resolved' = [resolved EXCEPT ![k.session] = v]

\* A call that issues the query whatever the label is.
CallWithoutBlankCheck(s, c, label, parent) ==
    /\ \A k \in calls : k.session # s
    /\ resolved' = [resolved EXCEPT ![s] = NoResult]
    /\ calls' = calls \cup {[session |-> s, collection |-> c,
                              label |-> label, parent |-> parent,
                              pc |-> "query"]}

\* resolve(collection, label, parentId) is called: null at once for a blank
\* label, else the query for a match is issued.
Call(s, c, label, parent) ==
    /\ \A k \in calls : k.session # s
    /\ IF Trim(label) = <<>>
       THEN /\ resolved' = [resolved EXCEPT ![s] = NullId]
            /\ calls' = calls
       ELSE /\ resolved' = [resolved EXCEPT ![s] = NoResult]
            /\ calls' = calls \cup {[session |-> s, collection |-> c,
                                      label |-> label, parent |-> parent,
                                      pc |-> "query"]}

\* A resolve call made on its own.
Resolve(s, c, label, parent) ==
    /\ Call(s, c, label, parent)
    /\ UNCHANGED <<activeStep, values, parts, derived, refs, chain>>
    /\ UNCHANGED cascadeVars
    /\ UNCHANGED storeVars
    /\ UNCHANGED viewVars

\* The query returns: the id of a match, or on to the insert.
ResolveQuery(k) ==
    /\ k.pc = "query"
    /\ LET found == Matches(k.collection, k.label, k.parent) IN
       IF found # {}
       THEN Return(k, refs[k.collection][Least(found)].id)
       ELSE /\ calls' = (calls \ {k}) \cup {[k EXCEPT !.pc = "insert"]}
            /\ UNCHANGED resolved
    /\ UNCHANGED <<activeStep, values, parts, derived, refs, chain>>
    /\ UNCHANGED cascadeVars
    /\ UNCHANGED storeVars
    /\ UNCHANGED viewVars

\* The insert returns: the id of the new row, or PersistenceError.
ResolveInsert(k) ==
    /\ k.pc = "insert"
    /\ \E outcome \in {"ok", "error"} :
          IF outcome = "ok"
          THEN LET c == k.collection
                   row == [id |-> Len(refs[c]) + 1, name |-> Trim(k.label),
                           parent_id |-> k.parent]
               IN /\ refs' = [refs EXCEPT ![c] = Append(@, row)]
                  /\ Return(k, row.id)
          ELSE Return(k, PersistenceError) /\ UNCHANGED refs
    /\ UNCHANGED <<activeStep, values, parts, derived, chain>>
    /\ UNCHANGED cascadeVars
    /\ UNCHANGED storeVars
    /\ UNCHANGED viewVars

(* ------------------------------ csv export ----------------------------- *)

\* The two exportToCsv functions: 1 is the one of AdminTable.tsx, 2 the one
\* of the listing in ContactForm.tsx.
ExportVariants == {1, 2}

\* The fields of the investigator profile carried by a listed row.
ProfileFields ==
    <<"has_pi_experience", "pi_experience_notes", "interested_in_pi_role",
      "pi_interest_notes", "has_subi_experience", "subi_experience_notes",
      "interested_in_subi_role", "subi_interest_notes", "gcp_trained",
      "gcp_last_training_date", "inv_notes">>

\* The header labels of the investigator-profile columns.
ProfileLabels ==
    <<"Has PI Experience", "PI Experience Notes", "Interested in PI Role",
      "PI Interest Notes", "Has Sub-I Experience", "Sub-I Experience Notes",
      "Interested in Sub-I Role", "Sub-I Interest Notes", "GCP Trained",
      "GCP Last Training Date", "Investigator Notes">>

\* The row fields exportToCsv writes, in the order of its cells.
ExportFields(v) ==
    IF v = 1
    THEN <<"id", "first_name", "last_name", "academic_title", "email",
           "mobile_phone", "office_phone", "country", "organization",
           "department", "specialty", "occupation",
           "hospital_clinic_address", "admin_assistant_name",
           "admin_assistant_email", "admin_assistant_phone", "creator",
           "created_at">>
    ELSE <<"id", "first_name", "last_name", "academic_title", "email",
           "mobile_phone", "office_phone", "country", "state", "city",
           "organization", "department", "specialty", "occupation",
           "hospital_clinic_address", "admin_assistant_name",
           "admin_assistant_email", "admin_assistant_phone">>
         \o ProfileFields \o <<"creator", "created_at">>

\* The header of exportToCsv.
ExportHeader(v) ==
    IF v = 1
    THEN <<"ID", "First Name", "Last Name", "Academic Title", "Email",
           "Mobile Phone", "Office Phone", "Country", "Organization",
           "Department", "Specialty", "Occupation",
           "Hospital/Clinic Address", "Admin Assistant Name",
           "Admin Assistant Email", "Admin Assistant Phone", "Created By",
           "Created At">>
    ELSE <<"ID", "First Name", "Last Name", "Academic Title", "Email",
           "Mobile Phone", "Office Phone", "Country", "State/Region", "City",
           "Organization", "Department", "Specialty", "Occupation",
           "Hospital/Clinic Address", "Admin Assistant Name",
           "Admin Assistant Email", "Admin Assistant Phone">>
         \o ProfileLabels \o <<"Created By", "Created At">>

\* Every field a listed row has.
RowFields == {ExportFields(2)[i] : i \in 1..Len(ExportFields(2))}

\* The texts a field of a listed contact may hold, one character per element.
CellTexts == {<<"a">>, <<"a", ",", "b">>, <<"\"", "a">>, <<"a", "\n", "b">>}

\* The listed rows: the name fields hold a text, every other contact field
\* is null or holds that text, and the profile fields are all null (no
\* profile) or hold a text.
ExportRows ==
    {[f \in RowFields |->
        IF f \in {"id", "created_at"} THEN <<"1">>
        ELSE IF f \in {ProfileFields[i] : i \in 1..Len(ProfileFields)} THEN inv
        ELSE IF f \in {"first_name", "last_name"} THEN text
        ELSE other] :
       text \in CellTexts, other \in {Null, <<"a", ",", "b">>},
       inv \in {Null, <<"a">>, <<"\"", "a">>}}

\* r.field ?? '': the text of a cell.
CellText(r, f) == IF r[f] = Null THEN <<>> ELSE r[f]

\* String(v).replace(/"/g, '""')
EscapeQuotes(v) ==
    LET RECURSIVE esc(_)
        esc(i) == IF i > Len(v) THEN <<>>
                  ELSE (IF v[i] = "\"" THEN <<"\"", "\"">> ELSE <<v[i]>>)
                       \o esc(i + 1)
    IN esc(1)

\* `"${...}"`: the cell as it is written.
Quoted(v) == <<"\"">> \o EscapeQuotes(v) \o <<"\"">>

\* parts.join(sep), the elements being texts.
JoinWith(texts, sep) ==
    LET RECURSIVE join(_)
        join(i) == IF i > Len(texts) THEN <<>>
                   ELSE IF i = Len(texts) THEN texts[i]
                   ELSE texts[i] \o <<sep>> \o join(i + 1)
    IN join(1)

\* One line of the export: the quoted cells of a row joined by commas.
ExportLine(v, r) ==
    JoinWith([i \in 1..Len(ExportFields(v)) |->
                 Quoted(CellText(r, ExportFields(v)[i]))], ",")

\* The text exportToCsv hands to the download: the header joined by commas,
\* then one line per filtered row, joined by line feeds.
ExportCsv(v, rows) ==
    JoinWith(<<JoinWith([i \in 1..Len(ExportHeader(v)) |->
                           <<ExportHeader(v)[i]>>], ",")>>
             \o [i \in 1..Len(rows) |-> ExportLine(v, rows[i])], "\n")

\* text.includes(part)
HasSubstring(text, part) ==
    \E i \in 0..(Len(text) - Len(part)) :
        SubSeq(text, i + 1, i + Len(part)) = part

\* The search test with the search text compared as typed.
MatchesSearchAsTyped(r, search) ==
    \/ HasSubstring(Lower(r.first_name \o <<" ">> \o r.last_name), search)
    \/ HasSubstring(Lower(CellText(r, "email")), search)
    \/ HasSubstring(Lower(CellText(r, "organization")), search)
    \/ HasSubstring(Lower(CellText(r, "specialty")), search)

\* The test of the search filter: the lower-cased search text is part of the
\* lower-cased full name, email, organization name or specialty name.
MatchesSearch(r, search) == MatchesSearchAsTyped(r, Lower(search))

\* The filter effect: [...rows], filtered by the search text if there is
\* one, then by the country name if a country is chosen.
Filtered(rows, search, countryFilter) ==
    LET bySearch(r) == MatchesSearch(r, search)
        byCountry(r) == r.country = countryFilter
        data == IF search # <<>> THEN SelectSeq(rows, bySearch) ELSE rows
    IN IF countryFilter # <<>> THEN SelectSeq(data, byCountry) ELSE data

\* The name of a country of the country table.
CountryName(c) == IF c = 1 THEN <<"A">> ELSE <<"b">>

\* The user types in the search input, which is rendered once the load is
\* over: setSearch, then the filter effect.
SetSearch(s, text) ==
    /\ listing[s].mounted /\ ~listing[s].loading
    /\ text # listing[s].search
    /\ listing' = [listing EXCEPT ![s].search = text,
                      ![s].filtered = Filtered(listing[s].rows, text,
                                               listing[s].countryFilter)]
    /\ UNCHANGED <<activeStep, values, formMounted, guard, toaster>>
    /\ UNCHANGED cascadeVars
    /\ UNCHANGED storeVars
    /\ UNCHANGED freeTextVars

\* The user picks 'All countries' or a loaded country in the country
\* select: setCountryFilter, then the filter effect.
SetCountryFilter(s, name) ==
    /\ listing[s].mounted /\ ~listing[s].loading
    /\ name \in {<<>>} \cup {CountryName(c) : c \in listing[s].countries}
    /\ name # listing[s].countryFilter
    /\ listing' = [listing EXCEPT ![s].countryFilter = name,
                      ![s].filtered = Filtered(listing[s].rows,
                                               listing[s].search, name)]
    /\ UNCHANGED <<activeStep, values, formMounted, guard, toaster>>
    /\ UNCHANGED cascadeVars
    /\ UNCHANGED storeVars
    /\ UNCHANGED freeTextVars

\* The user presses Export: the filtered rows are written as csv.
ExportToCsv(s) ==
    /\ listing[s].pc = "done"
    /\ listing[s].csv = <<"none">>
    /\ listing' = [listing EXCEPT ![s].csv =
                      ExportCsv(listing[s].variant, listing[s].filtered)]
    /\ UNCHANGED <<activeStep, values, formMounted, guard, toaster>>
    /\ UNCHANGED cascadeVars
    /\ UNCHANGED storeVars
    /\ UNCHANGED freeTextVars

(* ------------------------- location references ------------------------ *)

\* Submissions whose location references are resolved.
MaxChains == 2

\* The country, state and city labels a submission may carry.
ChainLabels == {<<>>, <<"A", "b">>, <<" ", "a", "b">>}

\* A parent id that ignores what the parent label resolved to.
ChainParentNone(s) == NullId

\* The parent id of the next scoped resolve: what the resolve of the parent
\* label returned.
ChainParent(s) == resolved[s]

\* The orchestrator resolves the country label of a submission.
ResolveCountry(s, labels) ==
    /\ chain[s].stage \in {"idle", "done", "failed"}
    /\ chain[s].n < MaxChains
    /\ chain' = [chain EXCEPT ![s] =
                    [NoChain EXCEPT !.stage = "country", !.labels = labels,
                                    !.n = chain[s].n + 1]]
    /\ Call(s, "country", labels.country, NullId)
    /\ UNCHANGED <<activeStep, values, parts, derived, refs>>
    /\ UNCHANGED cascadeVars
    /\ UNCHANGED storeVars
    /\ UNCHANGED viewVars

\* The resolve of the label of collection from has returned an id or null:
\* the orchestrator keeps it and resolves the label of collection to within it.
ResolveScoped(s, from, to) ==
    /\ chain[s].stage = from
    /\ \A k \in calls : k.session # s
    /\ resolved[s] # PersistenceError
    /\ chain' = [chain EXCEPT ![s][from] = resolved[s], ![s].stage = to]
    /\ Call(s, to, chain[s].labels[to], ChainParent(s))
    /\ UNCHANGED <<activeStep, values, parts, derived, refs>>
    /\ UNCHANGED cascadeVars
    /\ UNCHANGED storeVars
    /\ UNCHANGED viewVars

\* The state label is resolved within the resolved country.
ResolveState(s) == ResolveScoped(s, "country", "state_region")

\* The city label is resolved within the resolved state.
ResolveCity(s) == ResolveScoped(s, "state_region", "city")

\* The resolve of the city label has returned: all references are resolved.
ReferencesResolved(s) ==
    /\ chain[s].stage = "city"
    /\ \A k \in calls : k.session # s
    /\ resolved[s] # PersistenceError
    /\ chain' = [chain EXCEPT ![s].city = resolved[s], ![s].stage = "done"]
    /\ UNCHANGED <<activeStep, values, parts, derived, refs, calls, resolved>>
    /\ UNCHANGED cascadeVars
    /\ UNCHANGED storeVars
    /\ UNCHANGED viewVars

\* A resolve has failed: the submission ends without resolving the rest.
ReferenceFailed(s) ==
    /\ chain[s].stage \in {"country", "state_region", "city"}
    /\ \A k \in calls : k.session # s
    /\ resolved[s] = PersistenceError
    /\ chain' = [chain EXCEPT ![s].stage = "failed"]
    /\ UNCHANGED <<activeStep, values, parts, derived, refs, calls, resolved>>
    /\ UNCHANGED cascadeVars
    /\ UNCHANGED storeVars
    /\ UNCHANGED viewVars

(* ---------------------------- specifications --------------------------- *)

\* The option cascade and the wizard of one mounted form.
CascadeNext ==
    \E s \in {1} :
        \/ StaticLoaded(s)
        \/ \E c \in CountryIds \cup {Empty} : SetCountry(s, c)
        \/ \E c \in CountryIds : StatesLoaded(s, c)
        \/ \E st \in StateIds \cup {Empty} : SetState(s, st)
        \/ \E st \in StateIds : CitiesLoaded(s, st)
        \/ \E ci \in CityIds \cup {Empty} : SetCity(s, ci)
        \/ goNext(s)
        \/ goPrev(s)

\* The option cascade of one mounted form with reads that throw.
LoadNext ==
    \E s \in {1} :
        \/ StaticLoaded(s)
        \/ StaticThrown(s)
        \/ \E c \in CountryIds \cup {Empty} : SetCountry(s, c)
        \/ \E c \in CountryIds : StatesLoaded(s, c)
        \/ \E c \in CountryIds : StatesThrown(s, c)
        \/ \E st \in StateIds \cup {Empty} : SetState(s, st)
        \/ \E st \in StateIds : CitiesLoaded(s, st)
        \/ \E st \in StateIds : CitiesThrown(s, st)
        \/ goNext(s)

\* The intake form of one session and the listing of the other, either torn
\* down at any moment while reads are in flight; a form that is torn down
\* takes no input.
TeardownNext ==
    \/ \E s \in {1} :
          \/ StaticLoaded(s)
          \/ StaticThrown(s)
          \/ \E c \in CountryIds \cup {Empty} :
                formMounted[s] /\ SetCountry(s, c)
          \/ \E c \in CountryIds : StatesLoaded(s, c)
          \/ \E c \in CountryIds : StatesThrown(s, c)
          \/ formMounted[s] /\ goNext(s)
          \/ UnmountForm(s)
    \/ \E s \in {2} :
          \/ \E outcome \in ReadOutcomes : ListingRead(s, outcome)
          \/ UnmountListing(s)

\* The guards of the admin page and of the contact page, in either variant.
InitGuard ==
    /\ InitFreeText
    /\ InitForm
    /\ formMounted = [s \in Sessions |-> TRUE]
    /\ toaster = [s \in Sessions |-> NoToasts]
    /\ listing = [s \in Sessions |-> NoListing]
    /\ guard \in [Sessions ->
                    {[NoGuard EXCEPT !.variant = v, !.requireAdmin = a] :
                        v \in GuardVariants, a \in BOOLEAN}]

GuardNext ==
    \E s \in Sessions :
        \/ \E answer \in SessionAnswers : GuardSession(s, answer)
        \/ \E answer \in ProfileAnswers : GuardProfile(s, answer)
        \/ UnmountGuard(s)

SpecGuard == InitGuard /\ [][GuardNext]_vars

\* The calls a check waits for do return: each of them answers or throws.
GuardFairness ==
    \A s \in Sessions :
        /\ WF_vars(\E answer \in SessionAnswers : GuardSession(s, answer))
        /\ WF_vars(\E answer \in ProfileAnswers : GuardProfile(s, answer))

SpecGuardLive == SpecGuard /\ GuardFairness

\* Rows in an export.
MaxExportRows == 2

\* The listings whose load has ended with up to MaxExportRows rows, in
\* either variant.
LoadedListings ==
    {[NoListing EXCEPT !.variant = v, !.pc = "done", !.loading = FALSE,
                       !.rows = rows, !.filtered = rows] :
        v \in ExportVariants,
        rows \in UNION {[1..n -> ExportRows] : n \in 0..MaxExportRows}}

\* A loaded listing about to be exported.
InitExport ==
    /\ InitFreeText
    /\ InitForm
    /\ formMounted = [s \in Sessions |-> TRUE]
    /\ toaster = [s \in Sessions |-> NoToasts]
    /\ guard = [s \in Sessions |-> NoGuard]
    /\ \E l \in LoadedListings :
          listing = [s \in Sessions |-> IF s = 1 THEN l ELSE NoListing]

ExportNext == \E s \in {1} : ExportToCsv(s)

SpecExport == InitExport /\ [][ExportNext]_vars

\* Rows in a filtered listing.
MaxFilterRows == 2

\* What the user may type into the search input.
SearchInputs == {<<>>, <<"a">>, <<"A">>, <<"a", " ", "b">>, <<"x">>}

\* A listed contact with the fields the filters read; the other fields are
\* null.
ListedRow(id, first, last, email, org, spec, country) ==
    [f \in RowFields |->
        CASE f = "id" -> id
          [] f = "first_name" -> first
          [] f = "last_name" -> last
          [] f = "email" -> email
          [] f = "organization" -> org
          [] f = "specialty" -> spec
          [] f = "country" -> country
          [] f = "created_at" -> <<"1">>
          [] OTHER -> Null]

\* The contacts a listing may have read.
ListedRows ==
    {ListedRow(<<"1">>, <<"A">>, <<"b">>, Null, Null, Null, <<"A">>),
     ListedRow(<<"2">>, <<"b">>, <<"b">>, <<"a", "b">>, Null, Null, <<"b">>),
     ListedRow(<<"3">>, <<"b">>, <<"x">>, Null, <<"A">>, <<"x">>, Null),
     ListedRow(<<"4">>, <<"x">>, <<"x">>, <<"x">>, Null, Null, <<"A">>)}

\* A listing whose contacts read has answered with up to MaxFilterRows
\* contacts, each listed once.
ReadListings ==
    {[NoListing EXCEPT !.variant = v, !.pc = "profiles", !.data = rows] :
        v \in ExportVariants,
        rows \in {q \in UNION {[1..n -> ListedRows] : n \in 0..MaxFilterRows} :
                     \A i, j \in 1..Len(q) : i # j => q[i] # q[j]}}

InitFilter ==
    /\ InitFreeText
    /\ InitForm
    /\ formMounted = [s \in Sessions |-> TRUE]
    /\ toaster = [s \in Sessions |-> NoToasts]
    /\ guard = [s \in Sessions |-> NoGuard]
    /\ \E l \in ReadListings :
          listing = [s \in Sessions |-> IF s = 1 THEN l ELSE NoListing]

\* The load of the listing goes on and ends, the user searches, filters by
\* country and exports.
FilterNext ==
    \E s \in {1} :
        \/ \E outcome \in ReadOutcomes : ListingRead(s, outcome)
        \/ \E text \in SearchInputs : SetSearch(s, text)
        \/ \E c \in CountryIds \cup {Empty} :
              SetCountryFilter(s, IF c = Empty THEN <<>> ELSE CountryName(c))
        \/ ExportToCsv(s)

SpecFilter == InitFilter /\ [][FilterNext]_vars

\* showToast calls in one behaviour.
MaxToasts == 3

\* Milliseconds that pass in one behaviour.
MaxClock == 3

\* One toast provider: toasts are shown at any time before the last
\* millisecond, time passes and the timers fire.
ToastNext ==
    \E s \in {1} :
        \/ \E msg \in ToastMessages :
              /\ toaster[s].calls < MaxToasts
              /\ toaster[s].now < MaxClock
              /\ ShowToast(s, msg)
        \/ toaster[s].now < MaxClock /\ Tick(s)
        \/ TimerFires(s)

SpecToast == Init /\ [][ToastNext]_vars

\* Time goes on and a timer that is due fires.
ToastFairness ==
    \A s \in {1} :
        /\ WF_vars(toaster[s].now < MaxClock /\ Tick(s))
        /\ WF_vars(TimerFires(s))

SpecToastLive == SpecToast /\ ToastFairness

\* One form: field edits, navigation and its submissions.
SubmitNext ==
    \/ \E s \in {1} :
        \/ \E e \in EmailInputs : SetEmail(s, e)
        \/ SetInvestigator(s)
        \/ goNext(s)
        \/ goPrev(s)
        \/ Submit(s)
    \/ \E r \in subs :
        \/ CheckEmail(r)
        \/ GetSession(r)
        \/ InsertContact(r)
        \/ InsertProfile(r)

\* One form as SubmitNext has it, with the name inputs edited as well.
WizardNext ==
    \/ \E s \in {1} :
        \/ \E f \in RequiredFields, v \in TextInputs : SetName(s, f, v)
        \/ \E e \in {<<>>, <<"a", "b">>} : SetEmail(s, e)
        \/ SetInvestigator(s)
        \/ goNext(s)
        \/ goPrev(s)
        \/ nsub < MaxWizardSubmissions /\ Submit(s)
    \/ \E r \in subs :
        \/ CheckEmail(r)
        \/ GetSession(r)
        \/ InsertContact(r)
        \/ InsertProfile(r)

\* The form of the tabs variant: field edits, linear navigation and the
\* step header.
TabsNext ==
    \E s \in {1} :
        \/ \E f \in RequiredFields, v \in TextInputs : SetName(s, f, v)
        \/ \E e \in EmailInputs : SetEmail(s, e)
        \/ SetInvestigator(s)
        \/ goNext(s)
        \/ goPrev(s)
        \/ \E index \in 0..(Len(steps) - 1) : goTo(s, index)

\* A contact an earlier intake stored (its submission is not one of tok 1..).
SeedContact ==
    [id |-> 1, first_name |-> <<"A">>, last_name |-> <<"A">>,
     email |-> <<"_", "b">>, hospital_clinic_address |-> Null,
     country_id |-> NullId, state_id |-> NullId, city_id |-> NullId,
     organization_id |-> NullId, specialty_id |-> NullId,
     occupation_id |-> NullId, department_id |-> NullId,
     flagged |-> FALSE, sub |-> 0]

\* Two sessions whose users have filled in the form and stand on the last
\* step, submitting against the shared store, which is empty or holds the
\* contact of an earlier intake.
InitRace ==
    /\ InitFreeText
    /\ InitViews
    /\ activeStep = [s \in Sessions |-> Len(steps) - 1]
    /\ values \in [Sessions ->
          {[DefaultValues EXCEPT !.first_name = <<"A">>, !.last_name = <<"A">>,
                                 !.email = e, !.is_investigator = b] :
              e \in EmailInputs, b \in BOOLEAN}]
    /\ countries = [s \in Sessions |-> CountryIds]
    /\ states = [s \in Sessions |-> {}]
    /\ cities = [s \in Sessions |-> {}]
    /\ staticRead = [s \in Sessions |-> FALSE]
    /\ stateReads = [s \in Sessions |-> [c \in CountryIds |-> 0]]
    /\ cityReads = [s \in Sessions |-> [st \in StateIds |-> 0]]
    /\ notified = [s \in Sessions |-> {}]
    /\ submitting = [s \in Sessions |-> FALSE]
    /\ message = [s \in Sessions |-> <<>>]
    /\ subs = {}
    /\ nsub = 0
    /\ loader = [s \in Sessions |-> NoLoaderCalls]
    /\ contact \in {<<>>, <<SeedContact>>}
    /\ profile = <<>>

RaceNext ==
    \/ \E s \in Sessions : Submit(s)
    \/ \E r \in subs :
        \/ CheckEmail(r)
        \/ GetSession(r)
        \/ InsertContact(r)
        \/ InsertProfile(r)

Next == CascadeNext \/ SubmitNext

Spec == Init /\ [][Next]_vars

SpecCascade == Init /\ [][CascadeNext]_vars

SpecLoad == Init /\ [][LoadNext]_vars

SpecTeardown == Init /\ [][TeardownNext]_vars

SpecSubmit == Init /\ [][SubmitNext]_vars

SpecRace == InitRace /\ [][RaceNext]_vars

\* One signed-in user who has typed both names on the contact step and
\* stands on the professional step with the country options loaded.
InitLocation ==
    /\ InitFreeText
    /\ InitViews
    /\ activeStep = [s \in Sessions |-> 1]
    /\ values = [s \in Sessions |->
                    [DefaultValues EXCEPT !.first_name = <<"A">>,
                                          !.last_name = <<"A">>]]
    /\ countries = [s \in Sessions |-> CountryIds]
    /\ states = [s \in Sessions |-> {}]
    /\ cities = [s \in Sessions |-> {}]
    /\ staticRead = [s \in Sessions |-> FALSE]
    /\ stateReads = [s \in Sessions |-> [c \in CountryIds |-> 0]]
    /\ cityReads = [s \in Sessions |-> [st \in StateIds |-> 0]]
    /\ notified = [s \in Sessions |-> {}]
    /\ submitting = [s \in Sessions |-> FALSE]
    /\ message = [s \in Sessions |-> <<>>]
    /\ subs = {}
    /\ nsub = 0
    /\ loader = [s \in Sessions |-> NoLoaderCalls]
    /\ contact = <<>>
    /\ profile = <<>>

\* The location selects of one form, its next button and one submission,
\* with at most one read in flight for each country and each state.
LocationNext ==
    \/ \E s \in {1} :
        \/ \E c \in CountryIds \cup {Empty} :
              /\ c # Empty => stateReads[s][c] = 0
              /\ SetCountry(s, c)
        \/ \E c \in CountryIds : StatesLoaded(s, c)
        \/ \E st \in StateIds \cup {Empty} :
              /\ st # Empty => cityReads[s][st] = 0
              /\ SetState(s, st)
        \/ \E st \in StateIds : CitiesLoaded(s, st)
        \/ \E ci \in CityIds \cup {Empty} : SetCity(s, ci)
        \/ goNext(s)
        \/ nsub < MaxWizardSubmissions /\ Submit(s)
    \/ \E r \in subs :
        \/ GetSession(r)
        \/ InsertContact(r)

SpecLocation == InitLocation /\ [][LocationNext]_vars

SpecWizard == Init /\ [][WizardNext]_vars

SpecTabs == Init /\ [][TabsNext]_vars

\* The address derivation applied to every combination of address inputs.
InitAddress ==
    /\ InitForm
    /\ InitViews
    /\ parts \in AddressInputs
    /\ derived = NotDerived
    /\ refs = [c \in Collections |-> <<>>]
    /\ calls = {}
    /\ resolved = [s \in Sessions |-> NoResult]
    /\ chain = [s \in Sessions |-> NoChain]

AddressNext == DeriveAddress

\* One caller resolving labels one call after the other.
ResolveNext ==
    \/ \E s \in {1}, c \in {"organization", "state_region"} :
          \E label \in LabelInputs, parent \in ParentsOf(c) :
              Resolve(s, c, label, parent)
    \/ \E k \in calls :
          \/ ResolveQuery(k)
          \/ ResolveInsert(k)

SpecResolve == Init /\ [][ResolveNext]_vars

\* The labels two sessions resolve at the same time.
RaceLabels == {<<"A", "b">>, <<" ", "a", "b">>}

\* Two sessions resolving labels, their calls overlapping.
ResolveRaceNext ==
    \/ \E s \in Sessions, c \in {"organization", "state_region"} :
          \E label \in RaceLabels, parent \in ParentsOf(c) :
              Resolve(s, c, label, parent)
    \/ \E k \in calls :
          \/ ResolveQuery(k)
          \/ ResolveInsert(k)

SpecResolveRace == Init /\ [][ResolveRaceNext]_vars

\* One session resolving the location references of its submissions.
ChainNext ==
    \/ \E s \in {1} :
          \/ \E labels \in [country : ChainLabels, state_region : ChainLabels,
                             city : ChainLabels] : ResolveCountry(s, labels)
          \/ ResolveState(s)
          \/ ResolveCity(s)
          \/ ReferencesResolved(s)
          \/ ReferenceFailed(s)
    \/ \E k \in calls :
          \/ ResolveQuery(k)
          \/ ResolveInsert(k)

SpecChain == Init /\ [][ChainNext]_vars

SpecAddress == InitAddress /\ [][AddressNext]_vars

TypeOK ==
    /\ activeStep \in [Sessions -> 0..3]
    /\ \A s \in Sessions : states[s] \subseteq StateIds /\ cities[s] \subseteq CityIds
    /\ nsub <= MaxSubmissions
    /\ loader \in [Sessions -> [shown : 0..MaxSubmissions, hidden : 0..(2 * MaxSubmissions)]]
    /\ \A s \in Sessions : toaster[s].now >= 0 /\ Len(toaster[s].timers) <= toaster[s].calls

(* ------------------------------ properties ----------------------------- *)

\* C1: whenever the country field is empty the state option set is empty,
\* and whenever the state field is empty the city option set is empty.
CascadeInvariant ==
    \A s \in Sessions :
        /\ values[s].country_id = Empty => states[s] = {}
        /\ values[s].state_id = Empty => cities[s] = {}

\* C2: a completing read that was issued for a value which is not the current
\* value of its field leaves the option set as it was.
StaleReadDiscarded ==
    [][\A s \in Sessions :
          /\ \A c \in CountryIds :
                StatesLoaded(s, c) /\ c # values[s].country_id
                    => states'[s] = states[s]
          /\ \A st \in StateIds :
                CitiesLoaded(s, st) /\ st # values[s].state_id
                    => cities'[s] = cities[s]]_vars

\* C3: a session never has two onSubmit invocations in flight at once.
NoConcurrentSubmit ==
    \A s \in Sessions : Cardinality({r \in subs : r.session = s}) <= 1

\* C4: no two contact rows have non-null emails that are equal without
\* regard to case.
EmailUnique ==
    \A i, j \in 1..Len(contact) :
        (i # j /\ contact[i].email # Null /\ contact[j].email # Null)
            => Lower(contact[i].email) # Lower(contact[j].email)

\* C4 witness: a submission passed the pre-check and waits for its insert
\* while another contact with the same email has been committed.
RaceReachedInsert ==
    \E r \in subs :
        /\ r.pc = "insert"
        /\ \E i \in 1..Len(contact) :
              contact[i].sub # 0
              /\ contact[i].email # Null
              /\ Lower(contact[i].email) = Lower(trimmedEmail(r.vals))

\* C5: a submission whose trimmed email equals a stored contact's email
\* without regard to case ends, once the store has answered its uniqueness
\* query, with the duplicate-email message and writes no row.
DuplicateEmailRejected ==
    [][\A r \in subs : \A err \in OtherErrors :
          (CheckEmailStep(r, "ok", err) /\ EmailConflict(trimmedEmail(r.vals)))
              => /\ message'[r.session] = MsgDuplicate
                 /\ \A q \in subs' : q.tok # r.tok
                 /\ contact' = contact
                 /\ profile' = profile]_vars

\* The result message names the contact id.
Names(msg, id) == Includes(msg, ToString(id))

\* C6: when the profile insert of a flagged submission fails, the contact it
\* inserted stays stored under its id and the result is the profile-failure
\* message, which names that id.
ProfileFailureNamesContact ==
    [][\A r \in subs : \A err \in OtherErrors :
          InsertProfileStep(r, "error", err)
              => /\ r.contactId \in 1..Len(contact')
                 /\ contact'[r.contactId].id = r.contactId
                 /\ message'[r.session] = MsgProfileFailed(err)
                 /\ message'[r.session] \notin
                        {MsgDuplicate, MsgCheckFailed, MsgNoSession, MsgSaved}
                 /\ Names(message'[r.session], r.contactId)]_vars

HasProfile(cid) == \E k \in 1..Len(profile) : profile[k].contact_id = cid

\* C7: a contact has a profile row if and only if its intake was submitted
\* with is_investigator set.
ProfileIffFlagged ==
    \A i \in 1..Len(contact) : HasProfile(contact[i].id) <=> contact[i].flagged

\* C7 as amended: a contact has a profile row only if its intake was flagged;
\* a flagged contact whose invocation is still running waits at the profile
\* insert; that insert either adds the profile row and ends with the saved
\* message, or adds none and ends with the profile-failure or thrown message.
ProfileOnlyIfFlagged ==
    /\ [](\A i \in 1..Len(contact) :
             /\ HasProfile(contact[i].id) => contact[i].flagged
             /\ \A r \in subs :
                   (r.tok = contact[i].sub /\ contact[i].flagged)
                       => r.pc = "profile" /\ ~HasProfile(contact[i].id))
    /\ [][\A r \in subs :
             InsertProfile(r)
              => \/ /\ Len(profile') = Len(profile) + 1
                    /\ profile'[Len(profile')].sub = r.tok
                    /\ message'[r.session] = MsgSaved
                 \/ /\ profile' = profile
                    /\ message'[r.session] \in
                          {MsgProfileFailed(e) : e \in OtherErrors}
                              \cup {MsgThrown(e) : e \in OtherErrors}]_vars

\* C7 witness: a flagged contact with its profile row next to an unflagged
\* contact without one.
FlaggedAndUnflaggedStored ==
    /\ \E i \in 1..Len(contact) : contact[i].flagged /\ HasProfile(contact[i].id)
    /\ \E i \in 1..Len(contact) :
          contact[i].sub # 0 /\ ~contact[i].flagged /\ ~HasProfile(contact[i].id)

\* C8: every profile row refers to the contact row that the same invocation
\* inserted before it, and no contact has two profile rows.
ProfileFollowsItsContact ==
    /\ \A k \in 1..Len(profile) :
          \E i \in 1..Len(contact) :
              /\ contact[i].id = profile[k].contact_id
              /\ contact[i].sub = profile[k].sub
    /\ \A k, l \in 1..Len(profile) :
          k # l => profile[k].contact_id # profile[l].contact_id

\* C8 witness: two invocations have each stored a contact and its profile.
TwoProfilesStored == Len(profile) = 2

\* C9: every onSubmit invocation was started on the last step.
SubmitOnlyAtLastStep == \A r \in subs : r.step = 3

\* C10: the active step stays within 0..3; next at step 3 and previous at
\* step 0 leave it unchanged, at any other step they move it by one.
StepBounded ==
    /\ [](\A s \in Sessions : activeStep[s] \in 0..3)
    /\ [][\A s \in Sessions :
             /\ goNext(s) =>
                   activeStep'[s] = IF activeStep[s] = 3 THEN 3
                                    ELSE activeStep[s] + 1
             /\ goPrev(s) =>
                   activeStep'[s] = IF activeStep[s] = 0 THEN 0
                                    ELSE activeStep[s] - 1]_vars

\* C10 witness: the form stands on the last step with a city option loaded,
\* so next has been taken from every earlier step.
LastStepReached == activeStep[1] = 3 /\ cities[1] # {}

\* A step of the onSubmit invocation r.
StepOf(r) == CheckEmail(r) \/ GetSession(r) \/ InsertContact(r) \/ InsertProfile(r)

\* The step of r that stores the last row r has to write: the contact of an
\* unflagged intake, or the profile of a flagged one.
FullSuccess(r) ==
    \/ /\ r.pc = "insert" /\ ~r.vals.is_investigator
       /\ Len(contact') = Len(contact) + 1
    \/ /\ r.pc = "profile"
       /\ Len(profile') = Len(profile) + 1

\* C11: the step of an invocation that completes it successfully puts the
\* form of its session on step 0 with every field at its initial value;
\* every other step of an invocation, each failing outcome included, leaves
\* the active step and the field values of every session as they were.
ResetOnlyOnSuccess ==
    [][\A r \in subs :
          StepOf(r) =>
              IF FullSuccess(r)
              THEN /\ activeStep'[r.session] = 0
                   /\ values'[r.session].email = <<>>
                   /\ values'[r.session].first_name = <<>>
                   /\ values'[r.session].last_name = <<>>
                   /\ ~values'[r.session].is_investigator
                   /\ values'[r.session].country_id = Empty
                   /\ \A s \in Sessions \ {r.session} :
                         activeStep'[s] = activeStep[s] /\ values'[s] = values[s]
              ELSE activeStep' = activeStep /\ values' = values]_vars

\* C11 witness: one session was refused for lack of a sign-in and keeps its
\* step and the email typed, the other has saved and stands reset on step 0.
FailedKeptAndSavedReset ==
    \E s, u \in Sessions :
        /\ message[s] = MsgNoSession
        /\ activeStep[s] = 3 /\ values[s].email # <<>>
        /\ message[u] = MsgSaved
        /\ activeStep[u] = 0 /\ values[u] = DefaultValues

\* The rows that carry the mark of invocation r in a table.
RowsOf(r, table) == {i \in 1..Len(table) : table[i].sub = r.tok}

\* The messages a failed contact insert ends with.
ContactInsertMessages == {MsgContactError(e) : e \in InsertErrors \cup {UniqueViolation}}

\* C12: when a step ends an invocation with the duplicate-email message, the
\* check-failed message, the not-signed-in message or the message of a
\* failed contact insert, neither table holds a row written by that
\* invocation, and the step itself changes neither table.
FailureWritesNothing ==
    [][\A r \in subs :
          (/\ StepOf(r)
           /\ \A q \in subs' : q.tok # r.tok
           /\ \/ message'[r.session] \in {MsgDuplicate, MsgCheckFailed, MsgNoSession}
              \/ r.pc = "insert" /\ message'[r.session] \in ContactInsertMessages)
          => /\ contact' = contact /\ profile' = profile
             /\ RowsOf(r, contact') = {} /\ RowsOf(r, profile') = {}]_vars

\* C12 witness: a submission was refused for lack of a sign-in while the
\* store holds exactly the rows it held before.
RefusedWithStoreAsBefore ==
    \E s \in Sessions :
        /\ message[s] = MsgNoSession
        /\ \A i \in 1..Len(contact) : contact[i].sub = 0
        /\ contact # <<>>
        /\ subs = {} /\ nsub = MaxSubmissions

\* C13: a contact insert that the store refuses for the email uniqueness
\* constraint ends with the duplicate-email message; one that the store
\* answers with any other error ends with that error's message, unchanged,
\* and never with the duplicate-email message.
InsertFailureRouting ==
    [][\A r \in subs, err \in InsertErrors \ {<<>>} :
          /\ (InsertContactStep(r, "ok", err)
                  /\ ContactInsertError(ContactRow(r)) # <<>>)
                => message'[r.session] = MsgDuplicate
          /\ InsertContactStep(r, "error", err)
                => /\ message'[r.session] = err
                   /\ message'[r.session] # MsgDuplicate]_vars

\* The intake of scenario A: both names, no reference selected, no address,
\* not an investigator.
ScenarioA(vals) ==
    /\ vals.first_name # <<>> /\ vals.last_name # <<>>
    /\ ~vals.is_investigator
    /\ vals.hospital_clinic_address = <<>>
    /\ \A f \in {"organization_id", "specialty_id", "occupation_id",
                  "department_id", "country_id", "state_id", "city_id"} :
          vals[f] = Empty

\* Some stored contact has the email, compared without regard to case.
EmailStored(email) ==
    \E i \in 1..Len(contact) :
        contact[i].email # Null /\ Lower(contact[i].email) = Lower(email)

\* C14: for a submission of scenario A whose email no stored contact has,
\* an answered uniqueness query lets the submission go on, and the contact
\* insert the store carries out adds exactly one contact row, with the seven
\* reference columns and the address null, adds no profile row and ends
\* the submission with the saved message.
ScenarioACreatesOneContact ==
    [][\A r \in subs, err \in OtherErrors :
          (ScenarioA(r.vals) /\ ~EmailStored(trimmedEmail(r.vals)))
          => /\ CheckEmailStep(r, "ok", err) => \E q \in subs' : q.tok = r.tok
             /\ InsertContactStep(r, "ok", err)
                   => /\ Len(contact') = Len(contact) + 1
                      /\ RowsOf(r, contact') = {Len(contact')}
                      /\ LET row == contact'[Len(contact')] IN
                            /\ \A f \in {"organization_id", "specialty_id",
                                          "occupation_id", "department_id",
                                          "country_id", "state_id", "city_id"} :
                                  row[f] = NullId
                            /\ row.hospital_clinic_address = Null
                      /\ profile' = profile
                      /\ message'[r.session] = MsgSaved]_vars

\* C15: a submission whose email is empty or only whitespace starts at the
\* session lookup, without a uniqueness query; the store's uniqueness
\* constraint never refuses its row, however many rows without an email
\* are stored; and the insert the store carries out adds the row with a
\* null email and does not end with the duplicate-email message.
BlankEmailIsAbsent ==
    /\ [](\A r \in subs :
             Trim(r.vals.email) = <<>>
                => r.pc # "precheck" /\ ContactInsertError(ContactRow(r)) = <<>>)
    /\ [][\A r \in subs, err \in OtherErrors :
             (Trim(r.vals.email) = <<>> /\ InsertContactStep(r, "ok", err))
                => /\ Len(contact') = Len(contact) + 1
                   /\ contact'[Len(contact')].email = Null
                   /\ message'[r.session] # MsgDuplicate]_vars

\* C15 witness: two contacts without an email are stored, one of them typed
\* as a whitespace-only email.
TwoContactsWithoutEmail ==
    \E i, j \in 1..Len(contact) :
        /\ i # j
        /\ contact[i].email = Null /\ contact[j].email = Null
        /\ contact[i].sub # 0 /\ contact[j].sub # 0

\* C16: every onSubmit invocation started on the last step carries a first
\* name and a last name, and so does every contact row an invocation has
\* written; with both names present the last step's submit is refused for
\* no other blank field.
RequiredNamesEnforced ==
    /\ \A r \in subs :
          r.step = Len(steps) - 1
              => r.vals.first_name # <<>> /\ r.vals.last_name # <<>>
    /\ \A i \in 1..Len(contact) :
          contact[i].sub # 0
              => contact[i].first_name # <<>> /\ contact[i].last_name # <<>>
    /\ \A s \in {1} :
          (/\ activeStep[s] = Len(steps) - 1 /\ ~submitting[s]
           /\ values[s].first_name # <<>> /\ values[s].last_name # <<>>
           /\ nsub < MaxWizardSubmissions)
              => ENABLED Submit(s)

\* C17: next and previous are never refused, whatever the fields hold: off
\* the last step next moves on by one, off the first step previous moves
\* back by one; and a step of either changes no field value, no table and
\* no pending invocation.
NavigationIsFree ==
    /\ [](\A s \in {1} :
             /\ activeStep[s] < Len(steps) - 1
                   => ENABLED (goNext(s) /\ activeStep'[s] = activeStep[s] + 1)
             /\ activeStep[s] > 0
                   => ENABLED (goPrev(s) /\ activeStep'[s] = activeStep[s] - 1))
    /\ [][\A s \in Sessions :
             (goNext(s) \/ goPrev(s))
                => /\ values' = values
                   /\ contact' = contact /\ profile' = profile
                   /\ subs' = subs]_vars

\* C17 witness: the form stands on the last step with both required names
\* empty, while an invocation is pending and the store holds a contact.
LastStepWithEmptyNames ==
    /\ activeStep[1] = Len(steps) - 1
    /\ values[1].first_name = <<>> /\ values[1].last_name = <<>>
    /\ \E r \in subs : r.pc = "profile"
    /\ contact # <<>>

AddressPart(k) ==
    CASE k = 1 -> Trim(IF parts.org_type = <<"Other">>
                       THEN parts.org_type_other ELSE parts.org_type)
      [] k = 2 -> Trim(parts.address_line1)
      [] k = 3 -> Trim(parts.address_line2)
      [] k = 4 -> IF Trim(parts.postal_code) = <<>> THEN <<>>
                  ELSE <<"Postal Code: ">> \o Trim(parts.postal_code)

\* The k-th part preceded by a line break when a part stands before it.
AddressPiece(k) ==
    IF AddressPart(k) = <<>> THEN <<>>
    ELSE IF \E j \in 1..(k - 1) : AddressPart(j) # <<>>
         THEN <<"\n">> \o AddressPart(k)
         ELSE AddressPart(k)

ResolveIdempotent ==
    /\ [](\A c \in Collections : \A i, j \in 1..Len(refs[c]) :
             (i # j /\ Lower(refs[c][i].name) = Lower(refs[c][j].name))
                => ParentScoped(c) /\ refs[c][i].parent_id # refs[c][j].parent_id)
    /\ [][\A c \in Collections :
             /\ Len(refs'[c]) \in {Len(refs[c]), Len(refs[c]) + 1}
             /\ SubSeq(refs'[c], 1, Len(refs[c])) = refs[c]]_vars
    /\ [][\A k \in calls :
             ((ResolveQuery(k) \/ ResolveInsert(k))
                 /\ resolved'[k.session] \notin {NoResult, PersistenceError})
             => LET c == k.collection
                    id == resolved'[k.session]
                    had == {i \in 1..Len(refs[c]) :
                              /\ Lower(refs[c][i].name) = Lower(Trim(k.label))
                              /\ ParentScoped(c) => refs[c][i].parent_id = k.parent}
                IN /\ id \in 1..Len(refs'[c])
                   /\ refs'[c][id].id = id
                   /\ Lower(refs'[c][id].name) = Lower(Trim(k.label))
                   /\ ParentScoped(c) => refs'[c][id].parent_id = k.parent
                   /\ had # {} => refs' = refs /\ id \in had]_vars

\* C20 witness: the organization collection holds "Ab" and, added after it,
\* "b", and the last call returned the id of "Ab": a repeated call, with
\* whichever spelling, was answered with the existing row.
RepeatedLabelResolved ==
    /\ Len(refs["organization"]) = 2
    /\ refs["organization"][1].name = <<"A", "b">>
    /\ refs["state_region"] = <<>>
    /\ resolved[1] = 1
    /\ calls = {}

\* C21: a resolve call with an empty or whitespace-only label returns null
\* at once, issues no query and adds no row; and no collection ever holds a
\* row with a blank name.
BlankLabelResolvesToNull ==
    /\ [](\A c \in Collections : \A i \in 1..Len(refs[c]) :
             Trim(refs[c][i].name) # <<>>)
    /\ [][\A s \in Sessions, c \in Collections, label \in LabelInputs :
             \A parent \in ParentsOf(c) :
                 (Trim(label) = <<>> /\ Resolve(s, c, label, parent))
                    => /\ resolved'[s] = NullId
                       /\ refs' = refs
                       /\ calls' = calls]_vars

\* C21 witness: the last call returned null while the collections hold rows
\* and no call is pending.
BlankLabelReturnedNull ==
    /\ resolved[1] = NullId
    /\ calls = {}
    /\ refs["organization"] # <<>>
    /\ refs["state_region"] # <<>>

\* The collection whose rows are the parents of the rows of collection c.
ParentCollection(c) == IF c = "city" THEN "state_region" ELSE "country"

\* The id of row r is what the resolve of label in collection c returns:
\* a row of c whose name is the label without regard to case.
ResolvedFrom(c, id, label) ==
    \E i \in 1..Len(refs[c]) :
        /\ refs[c][i].id = id
        /\ Lower(refs[c][i].name) = Lower(Trim(label))

NamesUniqueUnderRace ==
    \A c \in Collections : \A i, j \in 1..Len(refs[c]) :
        (/\ Lower(refs[c][i].name) = Lower(refs[c][j].name)
         /\ ParentScoped(c) => refs[c][i].parent_id = refs[c][j].parent_id)
            => i = j

\* The rows of collection c that carry the label as name, case and
\* surrounding blanks aside, within the parent for state and city rows.
RowsNamed(c, label, parent) ==
    {i \in 1..Len(refs[c]) :
        /\ Lower(refs[c][i].name) = Lower(Trim(label))
        /\ c \in {"state_region", "city"} => refs[c][i].parent_id = parent}

\* The calls that have found no match for the label and are about to insert it.
Inserting(c, label, parent) ==
    {k \in calls :
        /\ k.pc = "insert"
        /\ k.collection = c
        /\ Lower(Trim(k.label)) = Lower(Trim(label))
        /\ ParentScoped(c) => k.parent = parent}

\* C23 as amended: only calls that overlap can store a name twice. A name
\* has at most one row per session: its rows and the calls about to insert
\* it are together never more than the sessions; and a query that finds a
\* match returns the id of a matching row and adds no row.
NamesUniquePerConcurrentResolve ==
    /\ [](\A c \in Collections, label \in RaceLabels :
             \A parent \in ParentsOf(c) :
                 Cardinality(RowsNamed(c, label, parent))
                   + Cardinality(Inserting(c, label, parent))
                     <= Cardinality(Sessions))
    /\ [][\A k \in calls :
             (ResolveQuery(k) /\ RowsNamed(k.collection, k.label, k.parent) # {})
                => /\ refs' = refs
                   /\ resolved'[k.session] \in
                         {refs[k.collection][i].id :
                            i \in RowsNamed(k.collection, k.label, k.parent)}]_vars

\* C23 witness: two sessions have resolved the same new label at the same
\* time and each has stored a row; their later calls have both been answered
\* with the id of the first of the two rows.
SameLabelInsertedTwice ==
    /\ calls = {}
    /\ Len(refs["organization"]) = 2
    /\ Lower(refs["organization"][1].name) = Lower(refs["organization"][2].name)
    /\ refs["state_region"] = <<>>
    /\ resolved[1] = 1
    /\ resolved[2] = 1

\* C24: a reference read that fails, by an error answer or by throwing,
\* leaves the option set it was to fill empty and notifies the user, and it
\* changes neither the step nor the field values.
FailedReadEmptiesAndNotifies ==
    [][\A s \in Sessions :
         /\ (StaticLoadedStep(s, FALSE) \/ StaticThrown(s))
               => /\ countries'[s] = {}
                  /\ MsgLoadStatic \in notified'[s]
                  /\ activeStep' = activeStep /\ values' = values
         /\ \A c \in CountryIds :
               (StatesLoadedStep(s, c, FALSE) \/ StatesThrown(s, c))
                  => /\ states'[s] = {}
                     /\ MsgLoadStates \in notified'[s]
                     /\ activeStep' = activeStep /\ values' = values
         /\ \A st \in StateIds :
               (CitiesLoadedStep(s, st, FALSE) \/ CitiesThrown(s, st))
                  => /\ cities'[s] = {}
                     /\ MsgLoadCities \in notified'[s]
                     /\ activeStep' = activeStep /\ values' = values]_vars

ClearingCountryClearsCities ==
    [][\A s \in Sessions :
         SetCountry(s, Empty) => states'[s] = {} /\ cities'[s] = {}]_vars

\* C27: a change of the country leaves no state options of the country
\* selected before, and a change of the state no city options of the state
\* selected before: the options shown are none until those of the new
\* selection arrive, never the old ones next to the new selection.
OldOptionsClearedOnChange ==
    [][\A s \in Sessions :
         /\ \A c \in CountryIds \cup {Empty} :
               SetCountry(s, c) => states'[s] = {}
         /\ \A st \in StateIds \cup {Empty} :
               SetState(s, st) => cities'[s] = {}]_vars

\* C28: a guard has allowed set only after its check found a session and,
\* with requireAdmin, an admin profile; it renders its children only when
\* allowed; and a mounted guard whose check has ended without allowing has
\* issued a redirect.
GuardAdmitsOnlyChecked ==
    \A s \in Sessions :
        LET g == guard[s] IN
        /\ g.allowed => /\ g.session = "some"
                        /\ g.requireAdmin => g.profile = "admin"
        /\ ChildrenRendered(g) => g.allowed
        /\ (g.pc = "done" /\ g.mounted /\ ~g.allowed) => g.redirect # ""

\* Position i of a csv text lies within a quoted cell: an odd number of
\* quote characters comes before it.
InQuotes(csv, i) == Cardinality({j \in 1..(i - 1) : csv[j] = "\""}) % 2 = 1

\* The positions of character ch outside quoted cells.
Unquoted(csv, ch) == {i \in 1..Len(csv) : csv[i] = ch /\ ~InQuotes(csv, i)}

\* The cells of the record that starts after position p: one more than the
\* commas outside quotes before the next line feed outside quotes.
CellsAfter(csv, p) ==
    LET ends == {b \in Unquoted(csv, "\n") : b > p}
        end == IF ends = {} THEN Len(csv) + 1 ELSE Least(ends)
    IN 1 + Cardinality({c \in Unquoted(csv, ",") : c > p /\ c < end})

\* The export has one record for the header and one for each filtered row,
\* each with as many cells as the header has columns.
ExportIsRectangular(l) ==
    /\ Cardinality(Unquoted(l.csv, "\n")) = Len(l.filtered)
    /\ \A p \in Unquoted(l.csv, "\n") \cup {0} :
          CellsAfter(l.csv, p) = Len(ExportHeader(l.variant))

\* C29: every exported record has as many cells as the header has columns,
\* whether or not the contact has an investigator profile, and the header
\* has the columns of the investigator profile.
ExportHasProfileColumns ==
    \A s \in Sessions :
        LET l == listing[s] IN
        l.csv # <<"none">> =>
            /\ ExportIsRectangular(l)
            /\ \A i \in 1..Len(ProfileLabels) :
                  \E j \in 1..Len(ExportHeader(l.variant)) :
                      ExportHeader(l.variant)[j] = ProfileLabels[i]

\* The messages with which the await at pc can end a submission.
FailureMessages(pc) ==
    {MsgThrown(e) : e \in InsertErrors} \cup
    CASE pc = "precheck" -> {MsgCheckFailed, MsgDuplicate}
      [] pc = "session" -> {MsgNoSession} \cup {MsgSessionError(e) : e \in OtherErrors}
      [] pc = "insert" -> ContactInsertMessages
      [] pc = "profile" -> {MsgProfileFailed(e) : e \in OtherErrors}

\* The step ends the invocation r.
Ends(r) == \A q \in subs' : q.tok # r.tok

\* C30: an invocation starts at the uniqueness query exactly when an email
\* is present and at the session lookup otherwise; it waits for the
\* profile insert only when is_investigator is set; each of its steps
\* either moves it to the next operation in the order uniqueness query,
\* session lookup, contact insert, profile insert, or ends it; a step that
\* ends it with a failure shows a message of the operation it was waiting
\* for, and it has then written nothing an operation after that one
\* writes; a contact row of an invocation still running means it waits for
\* the profile insert.
OperationsInOrder ==
    /\ [](\A r \in subs :
             /\ r.pc \in {"precheck", "session", "insert", "profile"}
             /\ r.pc = "precheck" => Trim(r.vals.email) # <<>>
             /\ r.pc = "profile" => r.vals.is_investigator
             /\ RowsOf(r, contact) # {} => r.pc = "profile"
             /\ RowsOf(r, profile) = {})
    /\ [][/\ \A q \in subs' :
                (\A r \in subs : r.tok # q.tok)
                   => q.pc = IF Trim(q.vals.email) # <<>> THEN "precheck"
                                                         ELSE "session"
          /\ \A r \in subs :
                StepOf(r) =>
                   /\ \A q \in subs' :
                         q.tok = r.tok =>
                            <<r.pc, q.pc>> \in {<<"precheck", "session">>,
                                                <<"session", "insert">>,
                                                <<"insert", "profile">>}
                   /\ (Ends(r) /\ message'[r.session] # MsgSaved) =>
                         /\ message'[r.session] \in FailureMessages(r.pc)
                         /\ r.pc \in {"precheck", "session", "insert"}
                               => RowsOf(r, contact') = {}
                         /\ RowsOf(r, profile') = {}
                   /\ (Ends(r) /\ message'[r.session] = MsgSaved) =>
                         /\ RowsOf(r, contact') # {}
                         /\ r.vals.is_investigator <=> RowsOf(r, profile') # {}]_vars

\* C30 witness: one submission with an email and is_investigator set went
\* through all four operations and was saved, and the other was stopped at
\* the uniqueness query, with the duplicate-email message.
AllFourDoneAndOneStoppedFirst ==
    \E s, t \in Sessions :
        /\ s # t
        /\ subs = {}
        /\ message[s] = MsgSaved /\ message[t] = MsgDuplicate
        /\ \E i \in 1..Len(contact), j \in 1..Len(profile) :
              /\ contact[i].sub # 0 /\ contact[i].email # Null
              /\ profile[j].sub = contact[i].sub
        /\ \A i \in 1..Len(contact) : contact[i].sub \in {0, 1}

\* C31: an answered uniqueness query ends a submission with the
\* duplicate-email message only when some stored contact has the trimmed
\* email, compared without regard to case, and never ends it with the
\* check-failed message.
PrecheckComparesLiterally ==
    [][\A r \in subs, err \in OtherErrors :
          (CheckEmailStep(r, "ok", err) /\ Ends(r))
             => /\ message'[r.session] = MsgDuplicate
                      => EmailStored(trimmedEmail(r.vals))
                /\ message'[r.session] # MsgCheckFailed]_vars

\* The stored contact row i holds what the invocation r would store, and was
\* written by an earlier invocation whose profile row is missing.
StoredWithoutProfile(r, i) ==
    /\ contact[i].sub \notin {0, r.tok}
    /\ contact[i].flagged
    /\ \A j \in 1..Len(profile) : profile[j].sub # contact[i].sub
    /\ [ContactRow(r) EXCEPT !.id = 0, !.sub = 0] = [contact[i] EXCEPT !.id = 0, !.sub = 0]

\* No other session has submitted: every invocation so far is of r's form.
OnlyFormSubmitting(r) ==
    \A t \in Sessions \ {r.session} : message[t] = <<>> /\ ~submitting[t]

\* C32: when a form whose earlier submission stored its contact and failed
\* at the profile insert is submitted again with the same content, the
\* contact insert the store answers adds no second contact row, with or
\* without an email.
ResubmitCreatesNoSecondContact ==
    [][\A r \in subs, err \in InsertErrors :
          (/\ InsertContactStep(r, "ok", err)
           /\ OnlyFormSubmitting(r)
           /\ \E i \in 1..Len(contact) : StoredWithoutProfile(r, i))
             => contact' = contact]_vars

\* C33: in every contact row a submission has written, a state_id comes
\* with the country_id of the country that state belongs to, and a city_id
\* with the state_id of the state that city belongs to.
LocationKeysConsistent ==
    \A i \in 1..Len(contact) :
        contact[i].sub # 0 =>
            /\ contact[i].state_id # NullId =>
                  <<contact[i].state_id, contact[i].country_id>> \in StateRows
            /\ contact[i].city_id # NullId =>
                  <<contact[i].city_id, contact[i].state_id>> \in CityRows

\* C34: hideLoader has never been called more often than showLoader, and
\* once every onSubmit invocation of a form has returned it has been called
\* exactly as often.
LoaderHiddenOncePerShow ==
    \A s \in Sessions :
        /\ loader[s].hidden <= loader[s].shown
        /\ (\A r \in subs : r.session # s) => loader[s].hidden = loader[s].shown

\* The check of the guard has come to one of its outcomes: the children are
\* shown or a redirect to the login or the contact page was issued.
GuardOutcome(g) == ChildrenRendered(g) \/ g.redirect \in {"/login", "/contact"}

\* C35: the check of every guard that stays mounted eventually shows the
\* children or issues a redirect to /login or /contact, and it never does
\* both.
GuardCheckEnds ==
    /\ [](\A s \in Sessions : ~(ChildrenRendered(guard[s]) /\ guard[s].redirect # ""))
    /\ \A s \in Sessions : <>(GuardOutcome(guard[s]) \/ ~guard[s].mounted)

\* part occurs in text when both are compared without regard to case.
OccursFolded(text, part) ==
    \E i \in 1..(Len(text) + 1), j \in 0..Len(text) :
        /\ j - i + 1 = Len(part)
        /\ \A k \in 1..Len(part) : LowerChar(text[i + k - 1]) = LowerChar(part[k])

\* The text of a field that may be null.
TextOf(v) == IF v = Null THEN <<>> ELSE v

\* The row is one the listing is to show for the search text and the
\* country chosen; no search text and no chosen country admit every row.
Wanted(r, search, country) ==
    /\ \/ OccursFolded(r.first_name \o <<" ">> \o r.last_name, search)
       \/ OccursFolded(TextOf(r.email), search)
       \/ OccursFolded(TextOf(r.organization), search)
       \/ OccursFolded(TextOf(r.specialty), search)
    /\ country # <<>> => r.country = country

\* The positions of the loaded rows the listing is to show.
WantedPositions(l) ==
    {i \in 1..Len(l.rows) : Wanted(l.rows[i], l.search, l.countryFilter)}

\* C36: whatever was loaded, typed into the search input and chosen in the
\* country select, the displayed list holds exactly the loaded rows that
\* match the search text without regard to case in full name, email,
\* organization or specialty and whose country name is the chosen one (any
\* country when none is chosen), in the order they were loaded; and an
\* export writes one line for each of them.
FilterShowsMatchingRows ==
    /\ [](\A s \in Sessions :
             LET l == listing[s]
                 keep == WantedPositions(l)
             IN /\ Len(l.filtered) = Cardinality(keep)
                /\ \A i \in keep :
                      l.filtered[Cardinality({j \in keep : j <= i})] = l.rows[i])
    /\ [][\A s \in Sessions :
             listing'[s].csv # listing[s].csv
                => Cardinality({i \in 1..Len(listing'[s].csv) :
                                   listing'[s].csv[i] = "\n"})
                   = Cardinality(WantedPositions(listing[s]))]_vars

\* C36 witness: of two loaded rows the listing shows and has exported the
\* one that matches a search text typed in upper case and the chosen
\* country.
OneOfTwoRowsShown ==
    \E s \in Sessions :
        LET l == listing[s] IN
        /\ l.search = <<"A">> /\ l.countryFilter = <<"A">>
        /\ Len(l.rows) = 2 /\ Len(l.filtered) = 1
        /\ l.filtered[1] = l.rows[2]
        /\ l.csv # <<"none">>

\* The toast of the showToast call n is shown by the provider of session s.
ToastShown(s, n) ==
    \E i \in 1..Len(toaster[s].toasts) : toaster[s].toasts[i].n = n

\* C37: a timer that fires removes no toast but the one of the showToast
\* call that set it, and every toast shown is eventually removed.
ToastRemovedByOwnTimer ==
    /\ [][\A s \in Sessions :
             TimerFires(s) =>
                \A n \in 1..MaxToasts :
                    (ToastShown(s, n) /\ n # Head(toaster[s].timers).n)
                       => \E i \in 1..Len(toaster'[s].toasts) :
                             toaster'[s].toasts[i].n = n]_vars
    /\ \A s \in Sessions, n \in 1..MaxToasts :
          ToastShown(s, n) ~> ~ToastShown(s, n)

====
